---- MODULE Spec2Model ----
(***************************************************************************)
(* Model of gosling's document sync (src/src/gosling/feed.py).             *)
(*                                                                         *)
(* dupsert_files_pinecone is modelled as a state machine: Reconcile is     *)
(* lines 113-166 (inventory, delete set, upload set, "no changes" return), *)
(* Confirm is lines 168-172, DeleteFile is one iteration of the loop of    *)
(* lines 177-182, UploadAttempt is one iteration of the retry loop of      *)
(* lines 193-225 (try body and except handler).                            *)
(*                                                                         *)
(* The assistant identifies a file by its id (delete_file and describe_file *)
(* take file ids, upload_file returns a new one): a name can be listed      *)
(* more than once, as after the upload of a new version of a listed file.  *)
(*                                                                         *)
(* Python strings that the code takes apart (last_updated) are sequences   *)
(* of one-character strings; split('.')[0] and int() are computed on them. *)
(* An absent key, None and '' are all falsy where the code tests them, and *)
(* are written "" (strings) or << >> (character sequences).                *)
(***************************************************************************)
EXTENDS Integers, Sequences, FiniteSets, TLC

VARIABLES
    assistant_files,   \* the assistant's file list, as list_files() returns it
    next_id,           \* id the store gives to the next uploaded file
    files,             \* argument files: the local manifest
    source,            \* argument source
    precise,           \* argument precise
    auto_confirm,      \* argument auto_confirm
    pc,                \* position in dupsert_files_pinecone
    confirmation,      \* local confirmation: the answer read by input(), "unasked" before
    files_to_delete,   \* local of dupsert_files_pinecone
    files_to_upsert,   \* local of dupsert_files_pinecone
    delete_calls,      \* ids passed to assistant.delete_file, in call order
    i,                 \* index of the outer upload loop (0-based, as in the code)
    attempt,           \* index of the retry loop (0-based, as in the code)
    sleep_time,        \* argument of the last time.sleep before the coming attempt
    upload_calls,      \* number of assistant.upload_file calls made for files_to_upsert[i]
    verified,          \* indices i whose retry loop ended with break
    event_table,       \* items of the DynamoDB table of slackbot.py line 38
    now,               \* datetime.now() of the Lambda hosts, in seconds
    secrets,           \* what nest.get_secret returns for the names slackbot.py reads
    thread,            \* the messages Slack's conversations_replies returns
    failing,           \* the remote calls that can raise in this run
    line,              \* per invocation: position in process_slack_event
    event_type,        \* per invocation: argument event_type
    event_data,        \* per invocation: argument event_data (and context)
    slack_data,        \* per invocation: local slack_data
    calls,             \* per invocation: the remote calls made, in order
    normalized_response, \* argument of format_normalized_response
    formatted_response, \* what format_normalized_response returned
    file_content,      \* content of the file convert_markdown_files reads and writes
    content_hash,      \* the content_hash of its metadata
    conversions,       \* number of conversions the file went through
    remote             \* the run of one of the other remote calls

sync_vars == <<assistant_files, next_id, files, source, precise, auto_confirm, pc,
               confirmation, files_to_delete, files_to_upsert, delete_calls, i, attempt,
               sleep_time, upload_calls, verified>>

slack_vars == <<event_table, now, secrets, thread, failing, line, event_type,
                event_data, slack_data, calls>>

honk_vars == <<normalized_response, formatted_response>>

feed_vars == <<file_content, content_hash, conversions>>

remote_vars == <<remote>>

text_vars == <<honk_vars, feed_vars, remote_vars>>

vars == <<sync_vars, slack_vars, text_vars>>

-----------------------------------------------------------------------------
(* Program constants *)

SOURCE_WIKI == "wiki_docs"
SOURCE_TINYBIRD == "tinybird_docs"
max_retries == 5
retry_delay == 1
DAY_SECONDS == 24 * 60 * 60

(* Bounds of the model *)

MaxManifest == 1     \* manifest length when only the decisions are checked
MaxInventory == 2    \* assistant file list length when only the decisions are checked
MaxFiles == 2        \* manifest length in a full pass
MaxRemote == 2       \* assistant file list length in a full pass

-----------------------------------------------------------------------------
(* Python string helpers *)

DigitValue ==
    [c \in {"0", "1", "2", "3", "4", "5", "6", "7", "8", "9"} |->
        CASE c = "0" -> 0 [] c = "1" -> 1 [] c = "2" -> 2 [] c = "3" -> 3
          [] c = "4" -> 4 [] c = "5" -> 5 [] c = "6" -> 6 [] c = "7" -> 7
          [] c = "8" -> 8 [] c = "9" -> 9]

\* s.split('.')[0]: the characters before the first '.', or all of s
split_dot_0(s) ==
    LET dots == {k \in 1..Len(s) : s[k] = "."}
    IN  IF dots = {} THEN s
        ELSE SubSeq(s, 1, (CHOOSE k \in dots : \A j \in dots : k <= j) - 1)

\* int(s) for a string of decimal digits
RECURSIVE int(_)
int(s) ==
    IF Len(s) = 0 THEN 0
    ELSE 10 * int(SubSeq(s, 1, Len(s) - 1)) + DigitValue[s[Len(s)]]

Range(seq) == {seq[k] : k \in 1..Len(seq)}

\* all sequences over S of length at most n
SeqUpTo(S, n) == UNION {[1..k -> S] : k \in 0..n}

-----------------------------------------------------------------------------
(* Reconciliation: dupsert_files_pinecone lines 113-150 *)

\* existing_files = {f.get("name"): f for f in assistant.list_files()}
\* A dict keeps a key at the position of its first insertion and the value of
\* its last: the result is given as the sequence of the dict's values.
existing_files(listing) ==
    LET first == SelectSeq([k \in 1..Len(listing) |-> k],
                     LAMBDA k : \A j \in 1..(k - 1) : listing[j].name # listing[k].name)
        last(name) == CHOOSE k \in 1..Len(listing) :
                        /\ listing[k].name = name
                        /\ \A j \in (k + 1)..Len(listing) : listing[j].name # name
    IN  [n \in 1..Len(first) |-> listing[last(listing[first[n]].name)]]

\* existing_valid_files: the values of existing_files whose metadata is a dict
\* with metadata["source"] == source
existing_valid_files(listing, src) ==
    SelectSeq(existing_files(listing),
              LAMBDA f : f.metadata.is_dict /\ f.metadata.source = src)

current_file_names(fs) == {fs[k].file_name : k \in 1..Len(fs)}

\* Variant: every file of the source is deleted, listed in the manifest or not
compute_files_to_delete_all(listing, fs, src) ==
    existing_valid_files(listing, src)

\* files_to_delete = [f for f in existing_valid_files if f.get("name") not in current_file_names]
compute_files_to_delete(listing, fs, src) ==
    SelectSeq(existing_valid_files(listing, src),
              LAMBDA f : f.name \notin current_file_names(fs))

\* existing_files.get(file_name) is not None
has_existing(listing, file_name) ==
    \E k \in 1..Len(listing) : listing[k].name = file_name

\* existing_files.get(file_name)
existing_file_details(listing, file_name) ==
    LET dict == existing_files(listing)
    IN  dict[CHOOSE n \in 1..Len(dict) : dict[n].name = file_name]

\* Variant: only a missing metadata dict is tested, not a missing last_updated
lacks_metadata_only(existing_metadata) ==
    ~existing_metadata.is_dict

\* not existing_metadata or not existing_metadata.get('last_updated')
lacks_last_updated(existing_metadata) ==
    \/ ~existing_metadata.is_dict
    \/ existing_metadata.last_updated = << >>

\* Variant: a gap of exactly 24 hours still counts as newer in imprecise mode
is_newer_inclusive(new_ts, existing_ts, prec) ==
    \/ (new_ts > existing_ts /\ prec)
    \/ (~prec /\ new_ts > existing_ts /\ new_ts - existing_ts <= DAY_SECONDS)

\* Variant: the 24 hour window of imprecise mode is not applied
is_newer_no_window(new_ts, existing_ts, prec) ==
    new_ts > existing_ts

\* is_newer, line 139
is_newer(new_ts, existing_ts, prec) ==
    \/ (new_ts > existing_ts /\ prec)
    \/ (~prec /\ new_ts > existing_ts /\ new_ts - existing_ts < DAY_SECONDS)

\* Variant: a newer file is uploaded without looking at the content hash
upsert_if_newer_ignoring_hash(existing_hash, new_hash) ==
    TRUE

\* lines 141-148: what a newer file does with the remote content hash
upsert_if_newer(existing_hash, new_hash) ==
    IF existing_hash = "" THEN TRUE
    ELSE IF existing_hash = new_hash THEN FALSE
    ELSE TRUE

\* lines 128-150: whether new_file_info is appended to files_to_upsert
should_upsert(listing, new_file_info, prec) ==
    IF has_existing(listing, new_file_info.file_name)
    THEN LET existing_metadata ==
                 existing_file_details(listing, new_file_info.file_name).metadata
         IN  IF lacks_last_updated(existing_metadata) THEN TRUE
             ELSE LET existing_ts == int(split_dot_0(existing_metadata.last_updated))
                      new_ts == int(split_dot_0(new_file_info.last_updated))
                  IN  IF is_newer(new_ts, existing_ts, prec)
                      THEN upsert_if_newer(existing_metadata.content_hash,
                                           new_file_info.content_hash)
                      ELSE FALSE
    ELSE TRUE

compute_files_to_upsert(listing, fs, prec) ==
    SelectSeq(fs, LAMBDA f : should_upsert(listing, f, prec))

-----------------------------------------------------------------------------
(* Apply phase helpers: lines 174-225 *)

\* the metadata dict of lines 195-200 (url does not take part in any decision)
upload_metadata(file_info) ==
    [is_dict |-> TRUE,
     source |-> file_info.source,
     last_updated |-> file_info.last_updated,
     content_hash |-> file_info.content_hash]

\* a file whose metadata is None
NoMetadata ==
    [is_dict |-> FALSE, source |-> "", last_updated |-> << >>, content_hash |-> ""]

\* Variant: the result of describe_file is not examined
verification_skipped(described) ==
    TRUE

\* line 210 negated: described_file.metadata and described_file.metadata.get('last_updated')
verification_passes(described) ==
    described.is_dict /\ described.last_updated # << >>

\* Variant: one retry too many
may_retry_once_more(att) == att < max_retries

\* line 218: attempt < max_retries - 1
may_retry(att) == att < max_retries - 1

\* Variant: the exponent is the index of the coming attempt
backoff_of_next_attempt(att) == retry_delay * (2 ^ (att + 1))

\* line 219: sleep_time = retry_delay * (2 ** attempt)
backoff(att) == retry_delay * (2 ^ att)

remove_id(listing, id) == SelectSeq(listing, LAMBDA f : f.id # id)

-----------------------------------------------------------------------------
(* Inputs *)

TS_3600_5 == <<"3", "6", "0", "0", ".", "5">>
TS_86400 == <<"8", "6", "4", "0", "0">>
TS_90000_1 == <<"9", "0", "0", "0", "0", ".", "1">>
TS_93600 == <<"9", "3", "6", "0", "0">>

FileMetadata(names, stamps, hashes, src) ==
    [source : {src}, file_name : names, last_updated : stamps, content_hash : hashes]

RemoteMetadata(sources, stamps, hashes) ==
    [is_dict : {TRUE}, source : sources, last_updated : stamps, content_hash : hashes]

\* list_files() of a store that gave its files the ids 1, 2, ...
Listing(entries) ==
    [k \in 1..Len(entries) |->
        [id |-> k, name |-> entries[k].name, metadata |-> entries[k].metadata]]

StartState ==
    /\ next_id = Len(assistant_files) + 1
    /\ pc = "start"
    /\ confirmation = "unasked"
    /\ files_to_delete = << >>
    /\ files_to_upsert = << >>
    /\ delete_calls = << >>
    /\ i = 0
    /\ attempt = 0
    /\ sleep_time = 0
    /\ upload_calls = 0
    /\ verified = {}

-----------------------------------------------------------------------------
(* dupsert_files_pinecone, step by step *)

\* lines 113-166: inventory, delete set, upload set, and the return of line 166
Reconcile ==
    /\ pc = "start"
    /\ UNCHANGED <<slack_vars, text_vars>>
    /\ LET to_delete == compute_files_to_delete(assistant_files, files, source)
           to_upsert == compute_files_to_upsert(assistant_files, files, precise)
       IN  /\ files_to_delete' = to_delete
           /\ files_to_upsert' = to_upsert
           /\ pc' = IF to_delete = << >> /\ to_upsert = << >>
                    THEN "no_changes" ELSE "confirm"
    /\ UNCHANGED <<assistant_files, next_id, files, source, precise, auto_confirm,
                   confirmation, delete_calls, i, attempt, sleep_time, upload_calls,
                   verified>>

\* str.lower() on the answers the model types at the prompt
lower(answer) == IF answer = "Y" THEN "y" ELSE answer

\* Variant: the upload loop of lines 188-225 stands before the delete loop
apply_from_uploads_first(to_delete, to_upsert) ==
    IF Len(to_upsert) > 0 THEN "upload"
    ELSE IF Len(to_delete) > 0 THEN "delete" ELSE "done"

\* where the function goes once the changes are to be applied (lines 175, 188)
apply_from(to_delete, to_upsert) ==
    IF Len(to_delete) > 0 THEN "delete"
    ELSE IF Len(to_upsert) > 0 THEN "upload" ELSE "done"

\* Variant: the changes are applied unless the answer is a no
cancelled_only_on_n(answer) == lower(answer) # "n"

\* line 170 negated: confirmation.lower() == 'y'
confirms(answer) == lower(answer) = "y"

\* lines 168-172
Confirm ==
    /\ pc = "confirm"
    /\ UNCHANGED <<slack_vars, text_vars>>
    /\ IF auto_confirm
       THEN /\ pc' = apply_from(files_to_delete, files_to_upsert)
            /\ UNCHANGED confirmation
       ELSE \E answer \in {"y", "Y", "n", ""} :
               /\ confirmation' = answer
               /\ pc' = IF confirms(answer)
                        THEN apply_from(files_to_delete, files_to_upsert)
                        ELSE "cancelled"
    /\ UNCHANGED <<assistant_files, next_id, files, source, precise, auto_confirm,
                   files_to_delete, files_to_upsert, delete_calls, i, attempt,
                   sleep_time, upload_calls, verified>>

\* Variant: a delete_file that raises is not caught and ends the function
after_delete_uncaught(raises, called, to_delete, to_upsert) ==
    IF raises THEN "raised"
    ELSE IF called < Len(to_delete) THEN "delete"
    ELSE apply_from(<< >>, to_upsert)

\* lines 177-188: where the function goes after a delete_file call, the
\* called-th of the loop, that raised (caught at line 181) or returned
after_delete(raises, called, to_delete, to_upsert) ==
    IF called < Len(to_delete) THEN "delete"
    ELSE apply_from(<< >>, to_upsert)

\* lines 177-182: one iteration of the delete loop; delete_file may raise
DeleteFile ==
    /\ pc = "delete"
    /\ UNCHANGED <<slack_vars, text_vars>>
    /\ LET file == files_to_delete[Len(delete_calls) + 1]
       IN  /\ delete_calls' = Append(delete_calls, file.id)
           /\ \E raises \in BOOLEAN :
                 /\ assistant_files' = IF raises THEN assistant_files
                                       ELSE remove_id(assistant_files, file.id)
                 /\ pc' = after_delete(raises, Len(delete_calls) + 1,
                                       files_to_delete, files_to_upsert)
    /\ UNCHANGED <<next_id, files, source, precise, auto_confirm, confirmation,
                   files_to_delete,
                   files_to_upsert, i, attempt, sleep_time, upload_calls, verified>>

\* what one pass through the try body of lines 194-215 can meet: upload_file
\* raises and stores nothing, or it stores the file and describe_file shows no
\* metadata (the ValueError of line 211), or describe_file shows the metadata.
\* A describe_file call that raises goes through the same handler as the
\* ValueError and is not told apart from it.
UploadOutcomes == {"upload_raises", "no_metadata", "has_metadata"}

\* the metadata describe_file returns for the file just uploaded
described_metadata(outcome, file_info) ==
    IF outcome = "no_metadata" THEN NoMetadata ELSE upload_metadata(file_info)

\* lines 209-215: the attempt ends with break
attempt_succeeds(outcome, file_info) ==
    /\ outcome # "upload_raises"
    /\ verification_passes(described_metadata(outcome, file_info))

\* lines 193-225: one iteration of the retry loop for files_to_upsert[i]
UploadAttempt ==
    /\ pc = "upload"
    /\ UNCHANGED <<slack_vars, text_vars>>
    /\ LET file_info == files_to_upsert[i + 1]
       IN  \E outcome \in UploadOutcomes :
              /\ IF outcome = "upload_raises"
                 THEN UNCHANGED <<assistant_files, next_id>>
                 ELSE /\ assistant_files' =
                            Append(assistant_files,
                                   [id |-> next_id,
                                    name |-> file_info.file_name,
                                    metadata |-> described_metadata(outcome, file_info)])
                      /\ next_id' = next_id + 1
              /\ IF attempt_succeeds(outcome, file_info)
                 THEN /\ verified' = verified \cup {i}
                      /\ upload_calls' = 0
                      /\ sleep_time' = 1
                      /\ i' = i + 1
                      /\ attempt' = 0
                      /\ pc' = IF i + 1 < Len(files_to_upsert) THEN "upload" ELSE "done"
                 ELSE IF may_retry(attempt)
                 THEN /\ upload_calls' = upload_calls + 1
                      /\ sleep_time' = backoff(attempt)
                      /\ attempt' = attempt + 1
                      /\ UNCHANGED <<verified, i, pc>>
                 ELSE /\ upload_calls' = upload_calls + 1
                      /\ pc' = "raised"
                      /\ UNCHANGED <<verified, i, attempt, sleep_time>>
    /\ UNCHANGED <<files, source, precise, auto_confirm, confirmation,
                   files_to_delete, files_to_upsert, delete_calls>>

-----------------------------------------------------------------------------
(***************************************************************************)
(* The Slack bot (src/src/slackbot.py, SlackEventData of                   *)
(* src/src/gosling/nest.py).                                               *)
(*                                                                         *)
(* Several invocations of process_slack_event run on their own Lambda      *)
(* hosts and share the DynamoDB table event_table.  line, event_type,      *)
(* event_data, slack_data and calls are functions of the invocation; an    *)
(* invocation whose line is "absent" was never started.                    *)
(*                                                                         *)
(* A text is a sequence of words, a word a tuple of strings: '' is << >>,  *)
(* the mention of user U is the word <<"<@", U, ">">>, and "x in text" is  *)
(* membership of the word x.  A channel id and the allow-list secret are   *)
(* sequences of characters (startswith, split and strip are computed).     *)
(* A key that a payload lacks is written "" or << >>, the default .get     *)
(* gives it where the code reads it.                                       *)
(***************************************************************************)

MAX_THREAD_MESSAGES == 10

\* lines 20-24; the adjacent literals 'thumbs_up' 'heart' are one literal
POSITIVE_REACTIONS ==
    {"+1", "thumbsup", "white_check_mark", "heavy_check_mark", "yes", "good",
     "verified", "raised_hands", "heart", "thumbs_upheart", "heavy_plus_sign"}

NEGATIVE_REACTIONS ==
    {"-1", "thumbsdown", "x", "no", "negative", "wrong", "false", "thumbs_down"}

\* timedelta(hours=1) of line 54, in seconds
HOUR_SECONDS == 60 * 60

(* Bounds of the Slack bot model *)

MaxInvocations == 2   \* invocations of process_slack_event that share the table
MaxThread == 2        \* messages of the thread conversations_replies returns
MaxReactions == 2     \* reactions of one message
MaxClock == 1         \* hours the clock can advance

Invocations == 1..MaxInvocations

startswith(s, c) == Len(s) > 0 /\ s[1] = c

Take(s, n) == SubSeq(s, 1, IF Len(s) < n THEN Len(s) ELSE n)

-----------------------------------------------------------------------------
(* get_conversation_context: lines 85-130 *)

RECURSIVE reaction_names(_)
reaction_names(reactions) ==
    IF reactions = << >> THEN << >>
    ELSE Append(reaction_names(SubSeq(reactions, 1, Len(reactions) - 1)),
                reactions[Len(reactions)].name)

\* lines 105-110 with += 1 and -= 1 in place of the counts
RECURSIVE reaction_score_by_votes(_)
reaction_score_by_votes(reactions) ==
    IF reactions = << >> THEN 0
    ELSE LET reaction == reactions[Len(reactions)]
             score == reaction_score_by_votes(SubSeq(reactions, 1, Len(reactions) - 1))
         IN  IF reaction.name \in POSITIVE_REACTIONS THEN score + 1
             ELSE IF reaction.name \in NEGATIVE_REACTIONS THEN score - 1
             ELSE score

\* lines 102-110: the loop over msg's reactions
RECURSIVE reaction_score(_)
reaction_score(reactions) ==
    IF reactions = << >> THEN 0
    ELSE LET reaction == reactions[Len(reactions)]
             score == reaction_score(SubSeq(reactions, 1, Len(reactions) - 1))
         IN  IF reaction.name \in POSITIVE_REACTIONS THEN score + reaction.count
             ELSE IF reaction.name \in NEGATIVE_REACTIONS THEN score - reaction.count
             ELSE score

\* lines 113-120
message_metadata(msg) ==
    [ts |-> msg.ts,
     reactions |-> reaction_names(msg.reactions),
     reaction_score |-> reaction_score(msg.reactions),
     is_bot |-> msg.bot_id,
     text |-> msg.text,
     score |-> reaction_score(msg.reactions)]

REDACTED == << <<"[Response marked as incorrect]">> >>

\* lines 122-125 without the else branch: the text whatever the score
context_message_unredacted(msg) ==
    [role |-> "user", content |-> << <<msg.user>>, <<":">> >> \o msg.text]

\* lines 122-125
context_message(msg) ==
    IF reaction_score(msg.reactions) >= 0
    THEN [role |-> "user", content |-> << <<msg.user>>, <<":">> >> \o msg.text]
    ELSE [role |-> "user", content |-> REDACTED]

\* lines 90-127, given the messages conversations_replies returned
get_conversation_context(replies) ==
    LET conversation == Take(replies, MAX_THREAD_MESSAGES)
    IN  [messages |-> [k \in 1..Len(conversation) |-> context_message(conversation[k])],
         context_metadata |-> [k \in 1..Len(conversation) |-> message_metadata(conversation[k])]]

-----------------------------------------------------------------------------
(* SlackEventData (nest.py lines 136-161) and parse_slack_event            *)

\* the dataclass with its defaults, the five required fields given
SlackEventData(type, ts, channel, user, text) ==
    [event_type |-> type, event_ts |-> ts, channel_id |-> channel, user_id |-> user,
     text |-> text, thread_ts |-> "", update_ts |-> "", ephemeral |-> FALSE,
     is_dm |-> FALSE, is_bot |-> FALSE, response |-> "", context |-> << >>,
     context_metadata |-> << >>, reactions |-> << >>, score |-> 0]

\* slack_data before line 229 has assigned it
NoSlackData == SlackEventData("", "", << >>, "", << >>)

\* lines 303-306 without the branch: the outer text and ts are kept
edited_keeps_outer(data) == data

\* lines 303-306
edited(data) ==
    IF data.subtype = "message_changed"
    THEN [data EXCEPT !.text = data.message.text,
                      !.ts = IF data.message.ts # "" THEN data.message.ts ELSE data.ts]
    ELSE data

\* line 310 as line 323 is written: the default is ''
message_thread_ts_or_empty(data) == data.thread_ts

\* line 310: event_data.get("thread_ts") or event_data["ts"]
message_thread_ts(data) == IF data.thread_ts # "" THEN data.thread_ts ELSE data.ts

\* lines 309-321
parse_message(type, data) ==
    [SlackEventData(type, data.ts, data.channel, data.user, data.text)
        EXCEPT !.thread_ts = message_thread_ts(data),
               !.ephemeral = FALSE,
               !.is_dm = startswith(data.channel, "D"),
               !.is_bot = data.bot_id]

\* lines 322-334; channel_id and user_id come from the Bolt context
parse_honk(type, data) ==
    [SlackEventData(type, data.trigger_id, data.context.channel_id,
                    data.context.user_id, data.text)
        EXCEPT !.thread_ts = data.thread_ts,
               !.ephemeral = TRUE,
               !.is_dm = startswith(data.context.channel_id, "D"),
               !.is_bot = data.bot_id]

\* lines 338-348: the record before the thread is fetched
parse_reaction(type, data) ==
    [SlackEventData(type, data.item.ts, data.item.channel, data.item_user, data.item.text)
        EXCEPT !.response = "reaction",
               !.thread_ts = data.item.ts,
               !.ephemeral = FALSE,
               !.is_dm = startswith(data.item.channel, "D")]

\* lines 355-358: indices of the metadata whose ts is the item's ts
target_indices(data, context_metadata) ==
    {k \in 1..Len(context_metadata) : context_metadata[k].ts = data.item.ts}

first_index(indices) == CHOOSE k \in indices : \A j \in indices : k <= j

\* lines 335-373, given the messages conversations_replies returned
resolve_reaction(type, data, replies) ==
    LET parsed == parse_reaction(type, data)
        fetched == get_conversation_context(replies)
        found == target_indices(data, fetched.context_metadata)
    IN  IF found = {}
        THEN parsed
        ELSE LET target_message == fetched.context_metadata[first_index(found)]
             IN  [parsed EXCEPT !.thread_ts = target_message.ts,
                                !.context = fetched.messages,
                                !.text = target_message.text,
                                !.context_metadata = fetched.context_metadata,
                                !.is_bot = target_message.is_bot,
                                !.reactions = target_message.reactions,
                                !.score = target_message.score]

MessageEvents == {"app_mention", "message"}
ReactionEvents == {"reaction_added", "reaction_removed"}

\* lines 298-380, for the event types the handlers pass
parse_slack_event(type, data, replies) ==
    IF type \in MessageEvents THEN parse_message(type, edited(data))
    ELSE IF type = "honk" THEN parse_honk(type, edited(data))
    ELSE resolve_reaction(type, edited(data), replies)

-----------------------------------------------------------------------------
(* SlackEventData.send_slack (nest.py lines 163-195) and the remote calls  *)

\* an entry of calls: the call, whether it returned, and the text it carried
Call(name, ok, text) == [call |-> name, ok |-> ok, text |-> text]

\* the outcomes a remote call can have in this run: TRUE is "returned"
Outcomes(name) == IF name \in failing THEN {TRUE, FALSE} ELSE {TRUE}

\* lines 168-193: the Slack method send_slack calls
send_method(data) ==
    IF data.update_ts # "" THEN "chat_update"
    ELSE IF data.is_dm \/ data.user_id = "" THEN "chat_postMessage"
    ELSE "chat_postEphemeral"

\* lines 165-193: the record after send_slack(response), the call having returned or raised
after_send(data, response, ok) ==
    LET said == IF response # "" THEN [data EXCEPT !.response = response] ELSE data
    IN  IF ~ok \/ send_method(data) = "chat_update" THEN said
        ELSE IF send_method(data) = "chat_postMessage"
             THEN [said EXCEPT !.update_ts = "posted"]
             ELSE [said EXCEPT !.update_ts = ""]

sent(data, response, ok) ==
    Call(send_method(data), ok, (after_send(data, response, ok)).response)

SendCalls == {"chat_update", "chat_postMessage", "chat_postEphemeral"}

-----------------------------------------------------------------------------
(* The allow-list: process_slack_event lines 252-253 *)

RECURSIVE split(_, _)
split(s, sep) ==
    LET at == {k \in 1..Len(s) : s[k] = sep}
    IN  IF at = {} THEN <<s>>
        ELSE LET k == CHOOSE j \in at : \A m \in at : j <= m
             IN  <<SubSeq(s, 1, k - 1)>> \o split(SubSeq(s, k + 1, Len(s)), sep)

RECURSIVE strip(_)
strip(s) ==
    IF s # << >> /\ s[1] = " " THEN strip(Tail(s))
    ELSE IF s # << >> /\ s[Len(s)] = " " THEN strip(SubSeq(s, 1, Len(s) - 1))
    ELSE s

\* line 252
allowed_channels(secret) ==
    LET pieces == split(secret, ",")
    IN  [k \in 1..Len(pieces) |-> strip(pieces[k])]

\* line 253
is_allowed(channel_id, secret) ==
    \/ allowed_channels(secret) = << <<"*">> >>
    \/ \E k \in 1..Len(allowed_channels(secret)) : allowed_channels(secret)[k] = channel_id

-----------------------------------------------------------------------------
(* The dedup table: is_duplicate_request and mark_request_started, lines 40-64 *)

same_key(item, data) ==
    item.channel_id = data.channel_id /\ item.event_ts = data.event_ts

\* lines 43-46 with the key reduced to event_ts
is_duplicate_request_by_ts(table, data, ok) ==
    ok /\ \E item \in table : item.event_ts = data.event_ts

\* lines 43-49 with the except branch returning True
is_duplicate_request_or_error(table, data, ok) ==
    ~ok \/ \E item \in table : same_key(item, data)

\* lines 43-49 with a response that never has 'Item'
is_duplicate_request_never(table, data, ok) == FALSE

\* lines 40-49; ok is whether get_item returned
is_duplicate_request(table, data, ok) ==
    ok /\ \E item \in table : same_key(item, data)

\* DynamoDB PutItem: the new item replaces the item of the same key
put_item(table, item) ==
    {old \in table : ~same_key(old, item)} \cup {item}

\* lines 51-64 with the item counted as written when put_item raised
mark_request_started_regardless(table, data, clock, ok) ==
    put_item(table, [channel_id |-> data.channel_id,
                     event_ts |-> data.event_ts,
                     ttl |-> clock + HOUR_SECONDS])

\* lines 51-64; clock is datetime.now(), ok is whether put_item returned
mark_request_started(table, data, clock, ok) ==
    IF ok
    THEN put_item(table, [channel_id |-> data.channel_id,
                          event_ts |-> data.event_ts,
                          ttl |-> clock + HOUR_SECONDS])
    ELSE table

\* line 265
needs_dedup_check(data, type) ==
    data.is_dm \/ type \in {"honk", "app_mention", "message"}

mention(user) == <<"<@", user, ">">>

\* lines 274-286
run_chat_process(data, type, payload, bot_user_id) ==
    \/ data.is_dm \/ type = "honk"
    \/ /\ type \in MessageEvents
       /\ \/ \E k \in 1..Len(data.text) : data.text[k] = mention(bot_user_id)
          \/ bot_user_id = "*"
    \/ type = "reaction_added" /\ payload.reaction = "honk"

-----------------------------------------------------------------------------
(* process_slack_event (lines 217-296), step by step *)

SlackFrame == UNCHANGED <<sync_vars, text_vars, now, secrets, thread, failing, event_type, event_data>>

\* invocation p goes to position l with slack_data data, having made the calls made
Goto(p, l, data, made) ==
    /\ line' = [line EXCEPT ![p] = l]
    /\ slack_data' = [slack_data EXCEPT ![p] = data]
    /\ calls' = [calls EXCEPT ![p] = @ \o made]

\* lines 223-229: the precheck and parse_slack_event
Parse(p) ==
    /\ line[p] = "start"
    /\ IF event_type[p] \in ReactionEvents
       THEN IF event_data[p].item.type # "message"
            THEN Goto(p, "ignored", NoSlackData, << >>)
            ELSE \E ok \in Outcomes("conversations_replies") :
                    Goto(p, IF ok THEN "admit" ELSE "raised",
                         IF ok THEN parse_slack_event(event_type[p], event_data[p], thread)
                               ELSE NoSlackData,
                         <<Call("conversations_replies", ok, "")>>)
       ELSE Goto(p, "admit", parse_slack_event(event_type[p], event_data[p], thread), << >>)
    /\ UNCHANGED event_table
    /\ SlackFrame

\* the channel the bot shares with the user, when it is not the event's channel
BOT_DM == <<"D", "9">>

\* what conversations_open can return for the user of the event
OpenedChannels(data) == {data.channel_id, BOT_DM}

AccessOutcomes ==
    IF "conversations_info" \in failing THEN {"ok", "operation_timeout", "error"} ELSE {"ok"}

\* line 209 without its test: a message for every error
tells_any_access_error(error_msg) == error_msg # ""

\* line 209: the errors verify_channel_access tells the user
tells_access_error(error_msg) == error_msg = "operation_timeout"

\* verify_channel_access lines 196-203: the Slack method asked
access_method(data) ==
    IF startswith(data.channel_id, "D") THEN "conversations_open" ELSE "conversations_info"

\* lines 231-262: bot messages, verify_channel_access, the allow-list, user_id
Admit(p) ==
    /\ line[p] = "admit"
    /\ LET data == slack_data[p]
           type == event_type[p]
       IN  IF data.is_bot /\ type \notin ReactionEvents
           THEN Goto(p, "bot_ignored", data, << >>)
           ELSE \E logged \in Outcomes("send_tinybird"), access \in AccessOutcomes,
                   opened \in OpenedChannels(data), told \in Outcomes("send_slack") :
                LET bot_calls == IF data.is_bot
                                 THEN <<Call("send_tinybird", logged, "")>> ELSE << >>
                    error_msg == IF access = "ok" THEN "" ELSE access
                    asked == bot_calls \o <<Call(access_method(data), access = "ok", error_msg)>>
                    admitted == IF startswith(data.channel_id, "D")
                                THEN [data EXCEPT !.channel_id = opened] ELSE data
                IN  IF access = "ok"
                    THEN IF is_allowed(admitted.channel_id, secrets.SLACK_CHANNEL_ALLOW_LIST)
                         THEN Goto(p, "dedup",
                                   [admitted EXCEPT !.user_id = IF admitted.ephemeral THEN @ ELSE ""],
                                   asked)
                         \* line 256 calls send_slack on the dict event_data: AttributeError
                         ELSE Goto(p, "raised", admitted, asked)
                    ELSE IF tells_access_error(error_msg)
                    THEN Goto(p, "no_access", after_send(data, "timed_out", told),
                              asked \o <<sent(data, "timed_out", told)>>)
                    ELSE Goto(p, "no_access", data, asked)
    /\ UNCHANGED event_table
    /\ SlackFrame

\* Variant: the chat process is run without the mark of line 290
after_check_unmarked(runs) == IF runs THEN "chat" ELSE "not_relevant"

\* lines 288-296: where the function goes once run_chat_process is chosen
after_check(runs) == IF runs THEN "mark" ELSE "not_relevant"

\* lines 264-286: the duplicate check and the choice of run_chat_process
DedupCheck(p) ==
    /\ line[p] = "dedup"
    /\ LET data == slack_data[p]
           type == event_type[p]
           onward == after_check(run_chat_process(data, type, event_data[p],
                                                  secrets.SLACK_BOT_USER_ID))
       IN  IF needs_dedup_check(data, type)
           THEN \E ok \in Outcomes("get_item") :
                   Goto(p, IF is_duplicate_request(event_table, data, ok)
                           THEN "duplicate" ELSE onward,
                        data, <<Call("get_item", ok, "")>>)
           ELSE Goto(p, onward, data, << >>)
    /\ UNCHANGED event_table
    /\ SlackFrame

\* line 290: mark_request_started
Mark(p) ==
    /\ line[p] = "mark"
    /\ \E ok \in Outcomes("put_item") :
          /\ event_table' = mark_request_started(event_table, slack_data[p], now, ok)
          /\ Goto(p, "chat", slack_data[p], <<Call("put_item", ok, "")>>)
    /\ SlackFrame

-----------------------------------------------------------------------------
(* process_chat_request (lines 132-189), step by step *)

\* lines 152-153 with insert(0, current_message) in place of append
with_current_message_first(conversation_context, text) ==
    << [role |-> "user", content |-> text] >> \o conversation_context

\* lines 152-153
with_current_message(conversation_context, text) ==
    IF conversation_context = << >>
       \/ conversation_context[Len(conversation_context)].content # text
    THEN Append(conversation_context, [role |-> "user", content |-> text])
    ELSE conversation_context

\* line 146
fetches_context(data) == ~data.ephemeral /\ data.thread_ts # ""

\* line 169, for a text of one word
is_feed_request(text) == text = << <<"feed">> >>

\* lines 66-83 with the handler of lines 80-83 for both failures
get_provider_response_no_apology(answered, formatted) ==
    IF answered /\ formatted THEN "answer_with_citations" ELSE "raw_answer"

\* lines 66-83 with the handler of lines 71-73 for both failures
get_provider_response_apology_on_format(answered, formatted) ==
    IF answered /\ formatted THEN "answer_with_citations" ELSE "backend_error_text"

\* get_provider_response (lines 66-83): what it returns, honk.get_response having
\* returned or raised (answered), format_response_with_citations likewise (formatted)
get_provider_response(answered, formatted) ==
    IF ~answered THEN "backend_error_text"
    ELSE IF formatted THEN "answer_with_citations" ELSE "raw_answer"

\* lines 136-161: the empty prompt, the thread context, the first analytics event
ChatStart(p) ==
    /\ line[p] = "chat"
    /\ LET data == slack_data[p]
       IN  IF data.text = << >>
           THEN \E told \in Outcomes("send_slack") :
                   Goto(p, IF told THEN "done" ELSE "raised",
                        after_send(data, "no_prompt", told), <<sent(data, "no_prompt", told)>>)
           ELSE \E fetched \in Outcomes("conversations_replies"),
                   logged \in Outcomes("send_tinybird") :
                LET context == IF fetches_context(data)
                               THEN get_conversation_context(thread)
                               ELSE [messages |-> << >>, context_metadata |-> << >>]
                    ready == [data EXCEPT
                                !.context = with_current_message(context.messages, data.text),
                                !.context_metadata = context.context_metadata]
                    asked == IF fetches_context(data)
                             THEN <<Call("conversations_replies", fetched, "")>> ELSE << >>
                IN  IF fetches_context(data) /\ ~fetched
                    THEN Goto(p, "chat_error", data, asked)
                    ELSE Goto(p, "chat_loading", ready,
                              asked \o <<Call("send_tinybird", logged, "")>>)
    /\ UNCHANGED event_table
    /\ SlackFrame

\* lines 164-169: the loading message
ChatLoading(p) ==
    /\ line[p] = "chat_loading"
    /\ \E told \in Outcomes("send_slack") :
          Goto(p, IF ~told THEN "chat_error"
                  ELSE IF is_feed_request(slack_data[p].text) THEN "chat_feed"
                  ELSE "chat_answer",
               after_send(slack_data[p], "loading", told),
               <<sent(slack_data[p], "loading", told)>>)
    /\ UNCHANGED event_table
    /\ SlackFrame

\* lines 170-177: the RAG update asked in chat
ChatFeed(p) ==
    /\ line[p] = "chat_feed"
    /\ \E told \in Outcomes("send_slack"), updated \in Outcomes("handle_rag_update"),
          told_end \in Outcomes("send_slack"), told_failure \in Outcomes("send_slack") :
          LET data == slack_data[p]
              started == after_send(data, "rag_starting", told)
              completed == after_send(started, "rag_completed", told_end)
              tried == <<sent(data, "rag_starting", told)>>
                       \o (IF told THEN <<Call("handle_rag_update", updated, "")>> ELSE << >>)
                       \o (IF told /\ updated
                           THEN <<sent(started, "rag_completed", told_end)>> ELSE << >>)
              reached == IF told /\ updated THEN completed ELSE started
          IN  IF told /\ updated /\ told_end
              THEN Goto(p, "done", completed, tried)
              ELSE Goto(p, IF told_failure THEN "done" ELSE "chat_error",
                        after_send(reached, "rag_failed", told_failure),
                        tried \o <<sent(reached, "rag_failed", told_failure)>>)
    /\ UNCHANGED event_table
    /\ SlackFrame

\* lines 180-185: the backend answer
ChatAnswer(p) ==
    /\ line[p] = "chat_answer"
    /\ \E answered \in Outcomes("get_response"),
          formatted \in Outcomes("format_response_with_citations"),
          told \in Outcomes("send_slack"), logged \in Outcomes("send_tinybird") :
          LET data == slack_data[p]
              response == get_provider_response(answered, formatted)
              asked == <<Call("get_response", answered, "")>>
                       \o (IF answered
                           THEN <<Call("format_response_with_citations", formatted, "")>>
                           ELSE << >>)
                       \o <<sent(data, response, told)>>
          IN  IF told
              THEN Goto(p, "done", after_send(data, response, told),
                        asked \o <<Call("send_tinybird", logged, "")>>)
              ELSE Goto(p, "chat_error", after_send(data, response, told), asked)
    /\ UNCHANGED event_table
    /\ SlackFrame

\* lines 187-189: the handler of the outer try
ChatError(p) ==
    /\ line[p] = "chat_error"
    /\ \E told \in Outcomes("send_slack") :
          Goto(p, IF told THEN "done" ELSE "raised",
               after_send(slack_data[p], "apology", told),
               <<sent(slack_data[p], "apology", told)>>)
    /\ UNCHANGED event_table
    /\ SlackFrame

-----------------------------------------------------------------------------
(* The environment of the invocations *)

\* the clocks of the hosts advance an hour
Tick ==
    /\ now < MaxClock * HOUR_SECONDS
    /\ now' = now + HOUR_SECONDS
    /\ UNCHANGED <<sync_vars, text_vars, event_table, secrets, thread, failing, line, event_type,
                   event_data, slack_data, calls>>

\* DynamoDB's time-to-live deletes an item whose ttl has passed
Expire ==
    /\ \E item \in event_table :
          /\ item.ttl <= now
          /\ event_table' = event_table \ {item}
    /\ UNCHANGED <<sync_vars, text_vars, now, secrets, thread, failing, line, event_type,
                   event_data, slack_data, calls>>

-----------------------------------------------------------------------------
(* Inputs of the Slack bot *)

NoMessage == [text |-> << >>, ts |-> ""]
NoItem == [type |-> "", ts |-> "", channel |-> << >>, text |-> << >>]
NoContext == [channel_id |-> << >>, user_id |-> ""]

NoPayload ==
    [subtype |-> "", text |-> << >>, ts |-> "", channel |-> << >>, user |-> "",
     thread_ts |-> "", message |-> NoMessage, bot_id |-> FALSE, trigger_id |-> "",
     item |-> NoItem, item_user |-> "", reaction |-> "", context |-> NoContext]

\* the event of an app_mention or message listener; message is the nested message
\* of an edit, and bot_id says whether the payload has bot_id or bot_profile
MessagePayloads(texts, stamps, channels, threads, edits, bots) ==
    {[NoPayload EXCEPT !.text = t, !.ts = s, !.channel = c, !.user = "U1",
                       !.thread_ts = th, !.subtype = e.subtype, !.message = e.message,
                       !.bot_id = b] :
        t \in texts, s \in stamps, c \in channels, th \in threads, e \in edits, b \in bots}

\* the body of a /honk command, with the Bolt context
HonkPayloads(texts, triggers, channels, threads) ==
    {[NoPayload EXCEPT !.text = t, !.trigger_id = g, !.thread_ts = th,
                       !.context = [channel_id |-> c, user_id |-> "U1"]] :
        t \in texts, g \in triggers, c \in channels, th \in threads}

\* the event of a reaction_added or reaction_removed listener
ReactionPayloads(reactions, kinds, stamps, channels) ==
    {[NoPayload EXCEPT !.reaction = r, !.item_user = "U1",
                       !.item = [type |-> k, ts |-> s, channel |-> c, text |-> << >>]] :
        r \in reactions, k \in kinds, s \in stamps, c \in channels}

NotEdited == [subtype |-> "", message |-> NoMessage]
Edits(texts, stamps) ==
    {[subtype |-> "message_changed", message |-> [text |-> t, ts |-> s]] :
        t \in texts, s \in stamps}

CHANNEL_A == <<"C", "1">>
CHANNEL_B == <<"C", "2">>
DM_A == <<"D", "1">>
BOT == "U0BOT"
HI == << <<"hi">> >>
HI_BOT == << mention(BOT), <<"hi">> >>
FEED == << <<"feed">> >>

\* the timestamps Slack gives the messages of a thread, oldest first
Stamps == <<"t1", "t2", "t3", "t4">>

\* a thread whose k-th message has the reactions reactions[k]; its text ends
\* with a word of its own, so that no two messages of a thread read the same
ThreadOf(reactions, bots) ==
    [k \in 1..Len(reactions) |->
        [ts |-> Stamps[k], user |-> "U1", text |-> HI \o << <<Stamps[k]>> >>,
         bot_id |-> k \in bots,
         reactions |-> reactions[k]]]

\* the allow-list secrets: everything, "C1, D1" and "D1"
ALLOW_ALL == <<"*">>
ALLOW_SOME == <<"C", "1", ",", " ", "D", "1">>
ALLOW_DM == <<"D", "1">>

\* no invocation was started
SlackIdle ==
    /\ event_table = {}
    /\ now = 0
    /\ secrets = [SLACK_CHANNEL_ALLOW_LIST |-> ALLOW_ALL, SLACK_BOT_USER_ID |-> BOT]
    /\ thread = << >>
    /\ failing = {}
    /\ line = [p \in Invocations |-> "absent"]
    /\ event_type = [p \in Invocations |-> ""]
    /\ event_data = [p \in Invocations |-> NoPayload]
    /\ slack_data = [p \in Invocations |-> NoSlackData]
    /\ calls = [p \in Invocations |-> << >>]

-----------------------------------------------------------------------------
(* Citation formatting: src/src/gosling/honk.py, format_normalized_response *)
(*                                                                         *)
(* The message, the URLs and the returned text are sequences of            *)
(* one-character strings, so that message[:pos], startswith('http'),       *)
(* str(num) and the f-strings are computed. The returned string is         *)
(* "References:\n", the reference lines each followed by "\n", one more    *)
(* "\n" and the annotated message: it is kept as the record of its lines   *)
(* and its message part.                                                   *)

\* bounds of the formatting inputs
MaxCitations == 2
MaxRefs == 2

DigitChars == <<"0", "1", "2", "3", "4", "5", "6", "7", "8", "9">>

\* str(n) for n >= 0
RECURSIVE str(_)
str(n) ==
    IF n < 10 THEN <<DigitChars[n + 1]>>
    ELSE str(n \div 10) \o <<DigitChars[(n % 10) + 1]>>

\* s.startswith(prefix)
startswith_str(s, prefix) ==
    Len(s) >= Len(prefix) /\ SubSeq(s, 1, Len(prefix)) = prefix

\* message[pos:] for pos >= 0
Drop(s, n) == SubSeq(s, (IF Len(s) < n THEN Len(s) ELSE n) + 1, Len(s))

\* the elements of S as a list, by ascending key: sorted(S, key=...) for keys
\* that differ
RECURSIVE sorted(_, _)
sorted(S, key) ==
    IF S = {} THEN << >>
    ELSE LET x == CHOOSE x \in S : \A y \in S : key[x] <= key[y]
         IN  <<x>> \o sorted(S \ {x}, key)

\* the URLs the loops of lines 179-181 and 189-192 visit, in visiting order
RECURSIVE cited_urls(_)
cited_urls(citations) ==
    IF citations = << >> THEN << >>
    ELSE [k \in 1..Len(Head(citations).references) |-> Head(citations).references[k].url]
         \o cited_urls(Tail(citations))

\* a list without the later repetitions of its elements
RECURSIVE first_appearances(_)
first_appearances(urls) ==
    IF urls = << >> THEN << >>
    ELSE LET before == first_appearances(SubSeq(urls, 1, Len(urls) - 1))
             url == urls[Len(urls)]
         IN  IF url \in Range(before) THEN before ELSE before \o <<url>>

\* lines 175-184: the dict reference_numbers after the first pass
reference_numbers(citations) ==
    LET order == first_appearances(cited_urls(citations))
    IN  [url \in Range(order) |-> CHOOSE n \in 1..Len(order) : order[n] = url]

\* lines 174, 185: the set all_references after the first pass
all_references(citations) == Range(cited_urls(citations))

\* lines 188-195: the dict citations_by_position
citations_by_position(citations) ==
    LET cited == {k \in 1..Len(citations) : citations[k].references # << >>}
    IN  [position \in {citations[k].position : k \in cited} |->
            UNION {{citations[k].references[j].url : j \in 1..Len(citations[k].references)} :
                   k \in {c \in cited : citations[c].position = position}}]

\* line 198 without reverse=True
positions_ascending(by_position) ==
    sorted(DOMAIN by_position, [position \in DOMAIN by_position |-> position])

\* line 198: sorted(citations_by_position.keys(), reverse=True)
positions(by_position) ==
    sorted(DOMAIN by_position, [position \in DOMAIN by_position |-> 0 - position])

\* lines 203-208: one entry of citation_nums
citation_num(ref, num) ==
    IF ref # << >> /\ startswith_str(ref, <<"h", "t", "t", "p">>)
    THEN <<"<">> \o ref \o <<"|">> \o str(num) \o <<">">>
    ELSE str(num)

\* ','.join(parts)
RECURSIVE join(_)
join(parts) ==
    IF parts = << >> THEN << >>
    ELSE IF Len(parts) = 1 THEN parts[1]
    ELSE parts[1] \o <<",">> \o join(Tail(parts))

\* lines 200-210 numbering the references of a position from 1, in the order
\* of their numbers
superscript_numbered_per_position(refs, numbers) ==
    LET ordered == sorted(refs, [ref \in refs |-> numbers[ref]])
    IN  <<"[">> \o join([k \in 1..Len(ordered) |-> citation_num(ordered[k], k)]) \o <<"]">>

\* lines 200-210 with one bracket for each reference of the position
superscript_per_reference(refs, numbers) ==
    LET ordered == sorted(refs, [ref \in refs |-> numbers[ref]])
        bracket(k) == <<"[">> \o citation_num(ordered[k], numbers[ordered[k]]) \o <<"]">>
    IN  IF Len(ordered) = 1 THEN bracket(1)
        ELSE IF Len(ordered) = 2 THEN bracket(1) \o bracket(2)
        ELSE bracket(1) \o bracket(2) \o bracket(3)

\* lines 200-210: the marker of one position
superscript(refs, numbers) ==
    LET ordered == sorted(refs, [ref \in refs |-> numbers[ref]])
    IN  <<"[">> \o join([k \in 1..Len(ordered) |->
                            citation_num(ordered[k], numbers[ordered[k]])]) \o <<"]">>

\* lines 199-211: the loop over positions
RECURSIVE insert_citations(_, _, _, _)
insert_citations(message, order, by_position, numbers) ==
    IF order = << >> THEN message
    ELSE LET pos == Head(order)
             marked == Take(message, pos) \o superscript(by_position[pos], numbers)
                       \o Drop(message, pos)
         IN  insert_citations(marked, Tail(order), by_position, numbers)

\* lines 217-219: one line of the references section, without its "\n"
reference_line(ref, ref_num) ==
    LET formatted_ref == IF ref # << >> /\ startswith_str(ref, <<"h", "t", "t", "p">>)
                         THEN <<"<">> \o ref \o <<"|">> \o ref \o <<">">>
                         ELSE ref
    IN  str(ref_num) \o <<".", " ">> \o formatted_ref

\* the value of formatted_response before the function has returned
NotFormatted == [returned |-> FALSE, references |-> << >>, message |-> << >>]

\* lines 155-222
format_normalized_response(response) ==
    LET citations == response.citations
        numbers == reference_numbers(citations)
        by_position == citations_by_position(citations)
        listed == sorted(all_references(citations), numbers)
    IN  IF citations = << >>
        THEN [returned |-> TRUE, references |-> << >>, message |-> response.message]
        ELSE [returned |-> TRUE,
              references |-> [k \in 1..Len(listed) |->
                                 reference_line(listed[k], numbers[listed[k]])],
              message |-> insert_citations(response.message, positions(by_position),
                                           by_position, numbers)]

\* format_normalized_response called and returning
FormatResponse ==
    /\ formatted_response = NotFormatted
    /\ formatted_response' = format_normalized_response(normalized_response)
    /\ UNCHANGED <<sync_vars, slack_vars, normalized_response, feed_vars, remote_vars>>

\* Inputs: a four-character message, an http URL and a file name standing for
\* a missing URL (normalize_pinecone_citations line 139), citations at the
\* start, in the middle and at the end of the message
MESSAGE == <<"w", "x", "y", "z">>
URL_A == <<"h", "t", "t", "p", ":", "a">>
NAME_B == <<"b", ".", "m", "d">>
References == {[name |-> <<"a", ".", "m", "d">>, url |-> URL_A],
               [name |-> NAME_B, url |-> NAME_B]}
CitationPositions == {0, 2, 4}
Citations == [position : CitationPositions, references : SeqUpTo(References, MaxRefs)]

HonkIdle ==
    /\ normalized_response = [message |-> << >>, citations |-> << >>]
    /\ formatted_response = NotFormatted

-----------------------------------------------------------------------------
(* Normalization: src/src/gosling/feed.py, convert_markdown_files lines 37-77 *)
(*                                                                         *)
(* A file's content is a sequence of one-character strings, "\n" among     *)
(* them. The regular expressions are matched as Python's re matches them:  *)
(* leftmost, greedy, '.' matching every character but "\n".                *)

\* bounds of the normalization inputs
MaxLines == 4
MaxConversions == 2

\* the characters \s matches among those of the inputs
Whitespace == {" ", "\n"}

\* index of the first c of s at or after k, 0 when there is none
find(s, c, k) ==
    LET at == {j \in k..Len(s) : s[j] = c}
    IN  IF at = {} THEN 0 ELSE first_index(at)

\* \|.+\|\n matched at k: the index of its "\n", 0 when it does not match
piped_line(s, k) ==
    LET newline == find(s, "\n", k)
    IN  IF k <= Len(s) /\ s[k] = "|" /\ newline >= k + 3 /\ s[newline - 1] = "|"
        THEN newline ELSE 0

\* (?:\|.+\|\n)+ matched at k: the index of the "\n" of its last row, or 0
RECURSIVE table_rows(_, _)
table_rows(s, k) ==
    LET newline == piped_line(s, k)
    IN  IF newline = 0 THEN 0
        ELSE LET more == table_rows(s, newline + 1)
             IN  IF more = 0 THEN newline ELSE more

\* \|[-|\s]+\|\n matched at k before at least one row: the index of its "\n",
\* the longest run of [-|\s] that lets the rest match; 0 when there is none
separator_line(s, k) ==
    LET ends == {q \in (k + 2)..(Len(s) - 1) :
                    /\ s[q] = "|" /\ s[q + 1] = "\n"
                    /\ \A j \in (k + 1)..(q - 1) : s[j] \in {"-", "|"} \cup Whitespace
                    /\ table_rows(s, q + 2) # 0}
    IN  IF k <= Len(s) /\ s[k] = "|" /\ ends # {}
        THEN (CHOOSE q \in ends : \A j \in ends : j <= q) + 1
        ELSE 0

\* line 39: table_pattern matched at k, with its groups 2 and 3 and the index
\* of its last character; end is 0 when it does not match
table_pattern(s, k) ==
    LET header == piped_line(s, k)
        separator == IF header = 0 THEN 0 ELSE separator_line(s, header + 1)
    IN  IF separator = 0 THEN [end |-> 0, group2 |-> << >>, group3 |-> << >>]
        ELSE [end |-> table_rows(s, separator + 1),
              group2 |-> SubSeq(s, k + 1, header - 2),
              group3 |-> SubSeq(s, separator + 1, table_rows(s, separator + 1))]

\* s.strip(c)
RECURSIVE strip_char(_, _)
strip_char(s, c) ==
    IF s # << >> /\ s[1] = c THEN strip_char(Tail(s), c)
    ELSE IF s # << >> /\ s[Len(s)] = c THEN strip_char(SubSeq(s, 1, Len(s) - 1), c)
    ELSE s

\* s.splitlines()
splitlines(s) ==
    LET parts == split(s, "\n")
    IN  IF parts[Len(parts)] = << >> THEN SubSeq(parts, 1, Len(parts) - 1) ELSE parts

\* sep.join(parts)
RECURSIVE join_with(_, _)
join_with(parts, sep) ==
    IF parts = << >> THEN << >>
    ELSE IF Len(parts) = 1 THEN parts[1]
    ELSE parts[1] \o sep \o join_with(Tail(parts), sep)

\* line 52: re.sub(r'\[([^\]]+)\]\([^\)]+\)', r'\1', value)
RECURSIVE unlink(_)
unlink(value) ==
    LET links == {k \in 1..Len(value) :
                    /\ value[k] = "["
                    /\ LET close == find(value, "]", k + 1)
                       IN  /\ close >= k + 2
                           /\ close < Len(value) /\ value[close + 1] = "("
                           /\ find(value, ")", close + 2) >= close + 3}
    IN  IF links = {} THEN value
        ELSE LET k == first_index(links)
                 close == find(value, "]", k + 1)
             IN  SubSeq(value, 1, k - 1) \o SubSeq(value, k + 1, close - 1)
                 \o unlink(SubSeq(value, find(value, ")", close + 2) + 1, Len(value)))

\* s.replace(c + c, '')
RECURSIVE remove_doubled(_, _)
remove_doubled(s, c) ==
    IF Len(s) < 2 THEN s
    ELSE IF s[1] = c /\ s[2] = c THEN remove_doubled(SubSeq(s, 3, Len(s)), c)
    ELSE <<s[1]>> \o remove_doubled(Tail(s), c)

\* lines 47-55: the entry of one row, cells and headers being as many
RECURSIVE row_entry(_, _)
row_entry(headers, cells) ==
    IF headers = << >> THEN << >>
    ELSE LET value == Head(cells)
         IN  (IF value # << >> /\ value # <<"-">>
              THEN <<Head(headers) \o <<":", " ">>
                     \o remove_doubled(remove_doubled(unlink(value), "="), "*")>>
              ELSE << >>)
             \o row_entry(Tail(headers), Tail(cells))

\* lines 45-57: text_parts for the rows from the k-th on
RECURSIVE text_parts(_, _, _)
text_parts(headers, table_lines, k) ==
    IF k > Len(table_lines) THEN << >>
    ELSE LET row == table_lines[k]
             parts == split(row, "|")
             cells == [j \in 1..(Len(parts) - 2) |-> strip(parts[j + 1])]
             entry == IF strip(row) # << >> /\ Len(cells) = Len(headers)
                         /\ \E j \in 1..Len(cells) : cells[j] # << >>
                      THEN row_entry(headers, cells) ELSE << >>
         IN  (IF entry # << >> THEN <<join_with(entry, <<" ", "|", " ">>)>> ELSE << >>)
             \o text_parts(headers, table_lines, k + 1)

\* lines 41-59, given groups 2 and 3 of the match
process_single_table(group2, group3) ==
    LET named == SelectSeq(split(group2, "|"), LAMBDA h : strip(h) # << >>)
        headers == [k \in 1..Len(named) |-> strip_char(strip(named[k]), "*")]
    IN  join_with(text_parts(headers, splitlines(group3), 1), <<"\n">>) \o <<"\n", "\n">>

\* lines 37-61: re.sub(table_pattern, process_single_table, markdown_content)
RECURSIVE convert_table_to_text(_)
convert_table_to_text(markdown_content) ==
    LET starts == {k \in 1..Len(markdown_content) :
                      table_pattern(markdown_content, k).end # 0}
    IN  IF starts = {} THEN markdown_content
        ELSE LET k == first_index(starts)
                 match == table_pattern(markdown_content, k)
             IN  SubSeq(markdown_content, 1, k - 1)
                 \o process_single_table(match.group2, match.group3)
                 \o convert_table_to_text(
                        SubSeq(markdown_content, match.end + 1, Len(markdown_content)))

\* the number of "\n" s starts with
RECURSIVE newlines(_)
newlines(s) == IF s # << >> /\ s[1] = "\n" THEN 1 + newlines(Tail(s)) ELSE 0

\* re.sub(r'\n{3}', '\n\n', content): line 74 without the comma
RECURSIVE collapse_three_newlines(_)
collapse_three_newlines(content) ==
    IF content = << >> THEN << >>
    ELSE IF newlines(content) >= 3
    THEN <<"\n", "\n">> \o collapse_three_newlines(SubSeq(content, 4, Len(content)))
    ELSE <<content[1]>> \o collapse_three_newlines(Tail(content))

\* line 74: re.sub(r'\n{3,}', '\n\n', content)
RECURSIVE collapse_newlines(_)
collapse_newlines(content) ==
    IF content = << >> THEN << >>
    ELSE IF newlines(content) >= 3
    THEN <<"\n", "\n">>
         \o collapse_newlines(SubSeq(content, newlines(content) + 1, Len(content)))
    ELSE <<content[1]>> \o collapse_newlines(Tail(content))

\* lines 73-74
normalize(content) == collapse_newlines(convert_table_to_text(content))

\* line 77: sha256(...).hexdigest(), two contents having one digest only when
\* they are the same
sha256(content) == [digest_of |-> content]

\* lines 70-77 for one file, the file read being the one the conversion before
\* wrote (line 84)
ConvertFile ==
    /\ conversions < MaxConversions
    /\ file_content' = normalize(file_content)
    /\ content_hash' = sha256(normalize(file_content))
    /\ conversions' = conversions + 1
    /\ UNCHANGED <<sync_vars, slack_vars, honk_vars, remote_vars>>

\* Inputs: files of at most MaxLines lines, each line ended by "\n" but
\* perhaps the last; the lines are a header, a separator, rows with markdown
\* in their cells, a lone pipe, text and the empty line
MarkdownLines ==
    { <<"|", "a", "|", "*", "b", "*", "|">>,
      <<"|", "-", "|", "-", "|">>,
      <<"|", "x", "|", " ", "*", "*", "y", "*", "*", "|">>,
      <<"|", "[", "x", "]", "(", "u", ")", "|", "=", "=", "|">>,
      <<"|">>,
      <<"t">>,
      << >> }

RECURSIVE file_of(_)
file_of(file_lines) ==
    IF file_lines = << >> THEN << >>
    ELSE Head(file_lines) \o <<"\n">> \o file_of(Tail(file_lines))

MarkdownFiles ==
    {file_of(file_lines) : file_lines \in SeqUpTo(MarkdownLines, MaxLines)}
      \cup {file_of(file_lines) \o <<"t">> : file_lines \in SeqUpTo(MarkdownLines, MaxLines - 1)}

NotHashed == [digest_of |-> << >>]

FeedIdle ==
    /\ file_content = << >>
    /\ content_hash = NotHashed
    /\ conversions = 0


-----------------------------------------------------------------------------
(* The other remote calls of the sync and of the chat: the page fetch of     *)
(* export_all_outline_docs, the fetch of parse_llms_full, the upload loop    *)
(* of dupsert_files_s3 (feed.py) and the query of get_response (honk.py).    *)
(* The variable remote is the run of one of them: the index of the item      *)
(* (page, file) it is at, the index of the attempt, the arguments of its     *)
(* time.sleep calls, and the items whose failure was logged and passed over. *)

\* bounds: pages the wiki has, files the object store is to receive
MaxPages == 2
MaxUploads == 2
MaxPasses == 2      \* runs of dupsert_files_pinecone on one store, one after the other

\* parse_llms_full: max_retries and the first retry_delay
llms_max_retries == 3
llms_retry_delay == 1

RemoteRun(operation, total) ==
    [operation |-> operation, state |-> "running", total |-> total, item |-> 0,
     attempt |-> 0, requests |-> 0, retry_delay |-> llms_retry_delay, sleeps |-> << >>,
     passed_over |-> {}, objects |-> << >>, to_delete |-> << >>, to_upload |-> << >>,
     caller |-> "", done |-> << >>, directories |-> {}, status_code |-> 0]

NoRemoteRun == [RemoteRun("", 0) EXCEPT !.state = "idle"]

Running(operation) == remote.operation = operation /\ remote.state = "running"

RemoteFrame == UNCHANGED <<sync_vars, slack_vars, honk_vars, feed_vars>>

\* export_all_outline_docs lines 254-279: one iteration of the pagination
\* loop; a page of paginate_limit documents asks for the next one
FetchOutlinePage ==
    /\ Running("export_all_outline_docs")
    /\ \E response \in {"full_page", "short_page", "raises"} :
          /\ response = "full_page" => remote.item + 1 < remote.total
          /\ remote' = [remote EXCEPT
                          !.requests = @ + 1,
                          !.item = IF response = "full_page" THEN @ + 1 ELSE @,
                          !.state = IF response = "full_page" THEN "running"
                                    ELSE IF response = "short_page" THEN "returned"
                                    ELSE "raised"]
    /\ RemoteFrame

\* parse_llms_full lines 310-321: one iteration of the retry loop
FetchLlmsFull ==
    /\ Running("parse_llms_full")
    /\ \E fetched \in BOOLEAN :
          remote' =
              IF fetched
              THEN [remote EXCEPT !.requests = @ + 1, !.state = "returned"]
              ELSE IF remote.attempt = llms_max_retries - 1
              THEN [remote EXCEPT !.requests = @ + 1, !.state = "raised"]
              ELSE [remote EXCEPT !.requests = @ + 1,
                                  !.attempt = @ + 1,
                                  !.sleeps = Append(@, remote.retry_delay),
                                  !.retry_delay = @ * 2]
    /\ RemoteFrame

\* dupsert_files_s3 lines 399-407: existing_files, the objects under the prefix
\* whose metadata.get('source') == source (an object is its key and the
\* Metadata of head_object; the prefix is the same on every key)
s3_existing_files(objects, src) ==
    SelectSeq(objects, LAMBDA o : o.metadata.source = src)

\* lines 421-423: the keys of existing_files that are not in current_file_keys
s3_files_to_delete(objects, fs, src) ==
    SelectSeq(s3_existing_files(objects, src),
              LAMBDA o : o.name \notin current_file_names(fs))

\* lines 434-441: should_upload, False only when existing_files has the key
\* and its content_hash equals the record's
should_upload(objects, file_info, src) ==
    LET existing == s3_existing_files(objects, src)
    IN  ~ \E k \in 1..Len(existing) :
              /\ existing[k].name = file_info.file_name
              /\ existing[k].metadata.content_hash = file_info.content_hash

s3_files_to_upload(objects, fs, src) ==
    SelectSeq(fs, LAMBDA file_info : should_upload(objects, file_info, src))

\* lines 446-451: the Metadata of an uploaded object
s3_metadata(file_info) ==
    [is_dict |-> TRUE,
     source |-> file_info.source,
     last_updated |-> split_dot_0(file_info.last_updated),
     content_hash |-> file_info.content_hash]

\* upload_fileobj: the object of the key is replaced or added
s3_put(objects, file_info) ==
    SelectSeq(objects, LAMBDA o : o.name # file_info.file_name)
        \o << [name |-> file_info.file_name, metadata |-> s3_metadata(file_info)] >>

\* the bucket after the delete_object calls at the places deleted of to_delete
s3_delete(objects, to_delete, deleted) ==
    SelectSeq(objects, LAMBDA o : ~ \E k \in deleted : to_delete[k] = o)

\* a run of dupsert_files_s3 that has not listed the bucket yet
S3Run(objects) ==
    [RemoteRun("dupsert_files_s3", 0) EXCEPT !.state = "listing", !.objects = objects]

\* dupsert_files_s3 lines 396-431: the listing, which raises when it fails
\* (lines 408-410), then the delete loop, where a delete_object that raises is
\* logged and passed (lines 425-429); files and source are the arguments
ReconcileS3 ==
    /\ remote.operation = "dupsert_files_s3"
    /\ remote.state = "listing"
    /\ \E listed \in BOOLEAN :
          IF ~ listed
          THEN remote' = [remote EXCEPT !.requests = @ + 1, !.state = "raised"]
          ELSE LET to_delete == s3_files_to_delete(remote.objects, files, source)
                   to_upload == s3_files_to_upload(remote.objects, files, source)
               IN  \E deleted \in SUBSET (1..Len(to_delete)) :
                      remote' = [remote EXCEPT
                                    !.requests = @ + 1 + Len(to_delete),
                                    !.to_delete = to_delete,
                                    !.to_upload = to_upload,
                                    !.total = Len(to_upload),
                                    !.objects = s3_delete(@, to_delete, deleted),
                                    !.state = IF Len(to_upload) = 0
                                              THEN "returned" ELSE "running"]
    /\ RemoteFrame

\* dupsert_files_s3 lines 432-466: one iteration of the upload loop, for a
\* file that is to be uploaded
UploadS3 ==
    /\ Running("dupsert_files_s3")
    /\ \E uploaded \in BOOLEAN :
          remote' = [remote EXCEPT
                        !.requests = @ + 1,
                        !.objects = IF uploaded
                                    THEN s3_put(@, remote.to_upload[remote.item + 1])
                                    ELSE @,
                        !.passed_over = IF uploaded THEN @ ELSE @ \cup {remote.item},
                        !.item = @ + 1,
                        !.state = IF remote.item + 1 < remote.total
                                  THEN "running" ELSE "returned"]
    /\ RemoteFrame

\* the ids that the delete loop of the pass asked to delete and that are still
\* in the store: the delete_file calls that raised
undeleted(listing, ids) == {id \in Range(ids) : \E k \in 1..Len(listing) : listing[k].id = id}

\* handle_rag_update lines 499 and 509, in a later run of the scheduled update:
\* dupsert_files_pinecone is called again with the same arguments, on the
\* store as the pass before left it; the ids of the deletes that failed are
\* kept in passed_over
NextPass ==
    /\ Running("dupsert_files_pinecone")
    /\ pc \in {"done", "no_changes"}
    /\ remote.item + 1 < remote.total
    /\ remote' = [remote EXCEPT
                     !.item = @ + 1,
                     !.passed_over = @ \cup undeleted(assistant_files, delete_calls)]
    /\ pc' = "start"
    /\ confirmation' = "unasked"
    /\ files_to_delete' = << >>
    /\ files_to_upsert' = << >>
    /\ delete_calls' = << >>
    /\ i' = 0
    /\ attempt' = 0
    /\ sleep_time' = 0
    /\ upload_calls' = 0
    /\ verified' = {}
    /\ UNCHANGED <<assistant_files, next_id, files, source, precise, auto_confirm>>
    /\ UNCHANGED <<slack_vars, honk_vars, feed_vars>>

\* honk.get_response lines 121-127
GetResponse ==
    /\ Running("get_response")
    /\ \E answered \in BOOLEAN :
          remote' = [remote EXCEPT !.requests = @ + 1,
                                   !.state = IF answered THEN "returned" ELSE "raised"]
    /\ RemoteFrame

-----------------------------------------------------------------------------
(* handle_rag_update (feed.py lines 470-521) and the scheduled event of     *)
(* lambda_handler (slackbot.py lines 415-427).  The function under way is   *)
(* remote.operation; caller, done (the calls that returned), directories    *)
(* (the temporary directories that exist) and objects (the bucket) belong   *)
(* to handle_rag_update and are kept from call to call.                     *)

\* lines 496-506: the calls that can raise, in their order, and their source
rag_update_steps ==
    <<"export_all_outline_docs", "dupsert_files_pinecone", "parse_llms_full",
      "dupsert_files_pinecone", "dupsert_files_s3">>

rag_update_sources ==
    <<SOURCE_WIKI, SOURCE_WIKI, SOURCE_TINYBIRD, SOURCE_TINYBIRD, SOURCE_TINYBIRD>>

\* lines 483 and 486: output_path and wiki_path
TemporaryDirectories == {"/tmp/plaintext", "/tmp/plaintext/wiki"}

InRagUpdate == remote.caller = "handle_rag_update" /\ remote.operation # "handle_rag_update"

\* the call under way has returned
StepReturned ==
    IF remote.operation = "dupsert_files_pinecone"
    THEN pc \in {"done", "no_changes", "cancelled"}
    ELSE remote.state = "returned"

\* the call under way has raised
StepRaised ==
    IF remote.operation = "dupsert_files_pinecone"
    THEN pc = "raised"
    ELSE remote.state = "raised"

\* Variant: the exception of a call is caught and the next call is made
after_step_swallowing(raised, done) ==
    IF Len(done) < Len(rag_update_steps) THEN Len(done) + 1 ELSE 0

\* lines 480-521: the place in rag_update_steps of the call that follows the
\* calls done, or 0 when the except and finally blocks follow
after_step(raised, done) ==
    IF raised THEN 0
    ELSE IF Len(done) < Len(rag_update_steps) THEN Len(done) + 1 ELSE 0

\* the run of the k-th call, inside the handle_rag_update run outer
step_run(k, outer, done, pages) ==
    [(IF rag_update_steps[k] = "dupsert_files_s3" THEN S3Run(outer.objects)
      ELSE RemoteRun(rag_update_steps[k],
                     IF rag_update_steps[k] = "export_all_outline_docs" THEN pages ELSE 1))
        EXCEPT !.caller = "handle_rag_update", !.done = done,
               !.directories = outer.directories, !.objects = outer.objects]

\* lines 508-521: the function has left the try block: the exception, if any,
\* is raised again and the finally block has removed the directories
ended_run(outer, done, raised) ==
    [RemoteRun("handle_rag_update", 0)
        EXCEPT !.state = IF raised THEN "raised" ELSE "returned",
               !.caller = "handle_rag_update", !.done = done,
               !.directories = {}, !.objects = outer.objects]

\* the manifests convert_markdown_files returns for the documents of a source
ConvertedFiles(src) ==
    SeqUpTo(FileMetadata({"a.txt"}, {TS_86400}, {"h1"}, src), MaxManifest)

\* lines 476-496: get_assistant, which raises before the try block is entered,
\* then the directories and the first call
BeginRagUpdate ==
    /\ remote.operation = "handle_rag_update"
    /\ remote.state = "called"
    /\ \E found \in BOOLEAN, pages \in 1..MaxPages :
          remote' = IF found
                    THEN step_run(1, [remote EXCEPT !.directories = TemporaryDirectories],
                                  << >>, pages)
                    ELSE [remote EXCEPT !.state = "raised"]
    /\ RemoteFrame

\* lines 496-521: the call under way has ended. When it returned and a call is
\* left, convert_markdown_files (which catches its exceptions, lines 96-97)
\* gives the manifest and the next call is made; otherwise the function ends.
RagUpdateStep ==
    /\ InRagUpdate
    /\ StepReturned \/ StepRaised
    /\ LET done == IF StepRaised THEN remote.done
                   ELSE Append(remote.done, remote.operation)
           next == after_step(StepRaised, done)
       IN  IF next = 0
           THEN /\ remote' = ended_run(remote, done, StepRaised)
                /\ UNCHANGED sync_vars
           ELSE /\ remote' = step_run(next, remote, done, 1)
                /\ IF rag_update_steps[next] = "dupsert_files_pinecone"
                   THEN /\ files' \in ConvertedFiles(rag_update_sources[next])
                        /\ source' = rag_update_sources[next]
                        /\ pc' = "start"
                        /\ confirmation' = "unasked"
                        /\ files_to_delete' = << >>
                        /\ files_to_upsert' = << >>
                        /\ delete_calls' = << >>
                        /\ i' = 0
                        /\ attempt' = 0
                        /\ sleep_time' = 0
                        /\ upload_calls' = 0
                        /\ verified' = {}
                        /\ UNCHANGED <<assistant_files, next_id, precise, auto_confirm>>
                   ELSE UNCHANGED sync_vars
    /\ UNCHANGED <<slack_vars, honk_vars, feed_vars>>

\* lambda_handler lines 418-427: the scheduled event
LambdaReturn ==
    /\ remote.operation = "handle_rag_update"
    /\ remote.state \in {"returned", "raised"}
    /\ remote.status_code = 0
    /\ remote' = [remote EXCEPT !.status_code = IF remote.state = "returned" THEN 200 ELSE 500]
    /\ RemoteFrame

RemoteIdle == remote = NoRemoteRun

TextIdle == HonkIdle /\ FeedIdle /\ RemoteIdle

-----------------------------------------------------------------------------
(* Specifications *)

\* Inputs of the decision check: one remote timestamp, local timestamps in the
\* same second and 23, 24 and 25 hours later; remote hashes absent, equal, other.
DecideFiles ==
    FileMetadata({"a.txt", "b.txt"}, {TS_3600_5, TS_86400, TS_90000_1, TS_93600},
                 {"h1"}, SOURCE_TINYBIRD)

DecideMetadata ==
    {NoMetadata}
      \cup RemoteMetadata({SOURCE_TINYBIRD}, {TS_3600_5}, {"", "h1", "h2"})
      \cup RemoteMetadata({SOURCE_TINYBIRD}, {<< >>}, {"h1"})
      \cup RemoteMetadata({SOURCE_WIKI}, {TS_3600_5}, {"h2"})

DecideEntries == [name : {"a.txt", "b.txt"}, metadata : DecideMetadata]

InitDecide ==
    /\ files \in SeqUpTo(DecideFiles, MaxManifest)
    /\ assistant_files \in {Listing(e) : e \in SeqUpTo(DecideEntries, MaxInventory)}
    /\ source = SOURCE_TINYBIRD
    /\ precise \in BOOLEAN
    /\ auto_confirm = TRUE
    /\ StartState
    /\ SlackIdle
    /\ TextIdle

NextDecide == Reconcile

SpecDecide == InitDecide /\ [][NextDecide]_vars

\* The bucket that holds the files of a listing: one object per key, with the
\* metadata of the file as the Metadata of head_object
bucket_of(listing) ==
    [k \in 1..Len(listing) |-> [name |-> listing[k].name, metadata |-> listing[k].metadata]]

\* Inventories that both stores can hold: a bucket has one object per key and
\* the Metadata of an object is always a dict
StoreInventories ==
    {e \in SeqUpTo(DecideEntries, MaxInventory) :
        /\ \A k \in 1..Len(e) : e[k].metadata.is_dict
        /\ \A j, k \in 1..Len(e) : e[j].name = e[k].name => j = k}

\* The two stores on the same manifest and the same inventory: the decisions of
\* dupsert_files_pinecone, then those of dupsert_files_s3, in the order of
\* handle_rag_update (lines 503-506)
InitStores ==
    /\ files \in SeqUpTo(DecideFiles, MaxManifest)
    /\ assistant_files \in {Listing(e) : e \in StoreInventories}
    /\ source = SOURCE_TINYBIRD
    /\ precise \in BOOLEAN
    /\ auto_confirm = TRUE
    /\ StartState
    /\ SlackIdle
    /\ HonkIdle
    /\ FeedIdle
    /\ remote = S3Run(bucket_of(assistant_files))

NextStores ==
    \/ Reconcile
    \/ pc # "start" /\ ReconcileS3

SpecStores == InitStores /\ [][NextStores]_vars

\* Inputs of a full pass
PassFiles == FileMetadata({"a.txt", "b.txt"}, {TS_86400}, {"h1"}, SOURCE_TINYBIRD)

PassEntries ==
    [name : {"a.txt"}, metadata : RemoteMetadata({SOURCE_TINYBIRD}, {TS_3600_5}, {"h1", "h2"})]
      \cup [name : {"c.txt", "d.txt"},
            metadata : RemoteMetadata({SOURCE_TINYBIRD}, {TS_3600_5}, {"h2"})]
      \cup [name : {"c.txt"}, metadata : RemoteMetadata({SOURCE_WIKI}, {TS_3600_5}, {"h2"})]

Init ==
    /\ files \in SeqUpTo(PassFiles, MaxFiles)
    /\ assistant_files \in {Listing(e) : e \in SeqUpTo(PassEntries, MaxRemote)}
    /\ source = SOURCE_TINYBIRD
    /\ precise = TRUE
    /\ auto_confirm \in BOOLEAN
    /\ StartState
    /\ SlackIdle
    /\ TextIdle

Next == Reconcile \/ Confirm \/ DeleteFile \/ UploadAttempt

Spec == Init /\ [][Next]_vars

-----------------------------------------------------------------------------
(* Specifications of the Slack bot *)

\* no sync pass is under way
SyncIdle ==
    /\ files = << >>
    /\ assistant_files = << >>
    /\ source = SOURCE_TINYBIRD
    /\ precise = TRUE
    /\ auto_confirm = TRUE
    /\ StartState

AllCalls ==
    {"conversations_replies", "conversations_info", "send_tinybird", "send_slack",
     "get_item", "put_item", "get_response", "format_response_with_citations",
     "handle_rag_update"}

\* invocation 1 was started with the given event, the others were not started
OneInvocation(type, data) ==
    /\ line = [p \in Invocations |-> IF p = 1 THEN "start" ELSE "absent"]
    /\ event_type = [p \in Invocations |-> IF p = 1 THEN type ELSE ""]
    /\ event_data = [p \in Invocations |-> IF p = 1 THEN data ELSE NoPayload]
    /\ slack_data = [p \in Invocations |-> NoSlackData]
    /\ calls = [p \in Invocations |-> << >>]

(* The thread context of a reaction: parse_slack_event on rich threads *)

ContextReactions ==
    {[name |-> "+1", count |-> 1], [name |-> "+1", count |-> 2],
     [name |-> "-1", count |-> 1], [name |-> "eyes", count |-> 1]}

InitContext ==
    /\ SyncIdle
    /\ TextIdle
    /\ event_table = {}
    /\ now = 0
    /\ secrets = [SLACK_CHANNEL_ALLOW_LIST |-> ALLOW_ALL, SLACK_BOT_USER_ID |-> BOT]
    /\ failing = {}
    /\ thread \in {ThreadOf(r, {}) :
                      r \in SeqUpTo(SeqUpTo(ContextReactions, MaxReactions), MaxThread)}
    /\ \E data \in ReactionPayloads({"+1"}, {"message"}, {"t1", "t2"}, {CHANNEL_A}) :
          OneInvocation("reaction_added", data)

NextContext == \E p \in Invocations : Parse(p)

SpecContext == InitContext /\ [][NextContext]_vars

(* One invocation of process_slack_event, on every kind of event *)

EventInputs ==
    (MessageEvents
        \X MessagePayloads({<< >>, HI, HI_BOT, FEED}, {"t1"}, {CHANNEL_A, DM_A}, {"", "t0"},
                           {NotEdited} \cup Edits({HI_BOT}, {"", "t2"}), BOOLEAN))
    \cup ({"honk"} \X HonkPayloads({<< >>, HI, FEED}, {"trigger"}, {CHANNEL_A, DM_A}, {"", "t0"}))
    \cup (ReactionEvents
            \X ReactionPayloads({"honk", "+1"}, {"message", "file"}, {"t1", "t2"}, {CHANNEL_A, DM_A}))

\* the threads conversations_replies returns: none, the user's message, and the
\* user's message with a reply of the bot that was marked wrong
EventThreads ==
    {<< >>, ThreadOf(<< << >> >>, {}),
     ThreadOf(<< << >>, <<[name |-> "-1", count |-> 1]>> >>, {2})}

\* the table as earlier invocations left it
EarlierTables ==
    {{}} \cup {{[channel_id |-> c, event_ts |-> s, ttl |-> HOUR_SECONDS]} :
                  c \in {CHANNEL_A, DM_A}, s \in {"t1", "trigger"}}

InitEvent ==
    /\ SyncIdle
    /\ TextIdle
    /\ event_table \in EarlierTables
    /\ now = 0
    /\ secrets \in [SLACK_CHANNEL_ALLOW_LIST : {ALLOW_ALL, ALLOW_SOME, ALLOW_DM},
                    SLACK_BOT_USER_ID : {BOT}]
    /\ thread \in EventThreads
    /\ failing = AllCalls
    /\ \E input \in EventInputs : OneInvocation(input[1], input[2])

NextEvent ==
    \E p \in Invocations :
        \/ Parse(p) \/ Admit(p) \/ DedupCheck(p) \/ Mark(p)
        \/ ChatStart(p) \/ ChatLoading(p) \/ ChatFeed(p) \/ ChatAnswer(p) \/ ChatError(p)

SpecEvent == InitEvent /\ [][NextEvent]_vars

(* Concurrent invocations that share the dedup table *)

InitGate ==
    /\ SyncIdle
    /\ TextIdle
    /\ event_table = {}
    /\ now = 0
    /\ secrets = [SLACK_CHANNEL_ALLOW_LIST |-> ALLOW_ALL, SLACK_BOT_USER_ID |-> BOT]
    /\ thread = ThreadOf(<< << >> >>, {})
    /\ failing = {"get_item", "put_item"}
    /\ line = [p \in Invocations |-> "start"]
    /\ event_type = [p \in Invocations |-> "app_mention"]
    /\ event_data \in [Invocations ->
                          MessagePayloads({HI_BOT}, {"t1"}, {CHANNEL_A, CHANNEL_B}, {""}, {NotEdited}, {FALSE})]
    /\ slack_data = [p \in Invocations |-> NoSlackData]
    /\ calls = [p \in Invocations |-> << >>]

NextGate ==
    \/ \E p \in Invocations :
          \/ Parse(p) \/ Admit(p) \/ DedupCheck(p) \/ Mark(p)
          \/ ChatStart(p) \/ ChatLoading(p) \/ ChatAnswer(p)
    \/ Tick
    \/ Expire

SpecGate == InitGate /\ [][NextGate]_vars

\* Formatting: every response of the bounds, formatted once
InitFormat ==
    /\ SyncIdle
    /\ SlackIdle
    /\ FeedIdle
    /\ RemoteIdle
    /\ normalized_response \in [message : {MESSAGE}, citations : SeqUpTo(Citations, MaxCitations)]
    /\ formatted_response = NotFormatted

NextFormat == FormatResponse

SpecFormat == InitFormat /\ [][NextFormat]_vars

\* Normalization: every file of the bounds, converted again and again
InitNormalize ==
    /\ SyncIdle
    /\ SlackIdle
    /\ HonkIdle
    /\ RemoteIdle
    /\ file_content \in MarkdownFiles
    /\ content_hash = NotHashed
    /\ conversions = 0

NextNormalize == ConvertFile

SpecNormalize == InitNormalize /\ [][NextNormalize]_vars

\* Remote calls: a sync of new files into an empty assistant, and one run of
\* each of the other remote calls
InitRemote ==
    /\ SlackIdle
    /\ HonkIdle
    /\ FeedIdle
    /\ \/ /\ remote = RemoteRun("dupsert_files_pinecone", 1)
          /\ files \in SeqUpTo(PassFiles, MaxFiles) \ {<< >>}
          /\ assistant_files = << >>
          /\ source = SOURCE_TINYBIRD
          /\ precise = TRUE
          /\ auto_confirm = TRUE
          /\ StartState
       \/ /\ remote = S3Run(<< >>)
          /\ files \in SeqUpTo(PassFiles, MaxUploads) \ {<< >>}
          /\ assistant_files = << >>
          /\ source = SOURCE_TINYBIRD
          /\ precise = TRUE
          /\ auto_confirm = TRUE
          /\ StartState
       \/ /\ remote \in {RemoteRun("export_all_outline_docs", pages) : pages \in 1..MaxPages}
                        \cup {RemoteRun("parse_llms_full", 1), RemoteRun("get_response", 1)}
          /\ SyncIdle

NextRemote ==
    \/ Running("dupsert_files_pinecone") /\ (Reconcile \/ Confirm \/ UploadAttempt)
    \/ FetchOutlinePage
    \/ FetchLlmsFull
    \/ ReconcileS3
    \/ UploadS3
    \/ GetResponse

SpecRemote == InitRemote /\ [][NextRemote]_vars

\* A scheduled RAG update, on stores that hold the same files
InitUpdate ==
    /\ SlackIdle
    /\ HonkIdle
    /\ FeedIdle
    /\ files = << >>
    /\ assistant_files \in {Listing(e) : e \in SeqUpTo(PassEntries, MaxInventory)}
    /\ source = SOURCE_WIKI
    /\ precise = TRUE
    /\ auto_confirm = TRUE
    /\ StartState
    /\ remote = [RemoteRun("handle_rag_update", 0)
                    EXCEPT !.state = "called", !.caller = "lambda_handler",
                           !.objects = bucket_of(assistant_files)]

NextUpdate ==
    \/ BeginRagUpdate
    \/ RagUpdateStep
    \/ LambdaReturn
    \/ FetchOutlinePage
    \/ FetchLlmsFull
    \/ Running("dupsert_files_pinecone") /\ (Reconcile \/ Confirm \/ DeleteFile \/ UploadAttempt)
    \/ ReconcileS3
    \/ UploadS3

SpecUpdate == InitUpdate /\ [][NextUpdate]_vars

\* Passes of dupsert_files_pinecone that follow each other on one store, with
\* the same manifest and the same precise flag
InitPasses ==
    /\ files \in SeqUpTo(PassFiles, MaxManifest)
    /\ assistant_files \in {Listing(e) : e \in SeqUpTo(PassEntries, MaxInventory)}
    /\ source = SOURCE_TINYBIRD
    /\ precise \in BOOLEAN
    /\ auto_confirm = TRUE
    /\ StartState
    /\ SlackIdle
    /\ HonkIdle
    /\ FeedIdle
    /\ remote = RemoteRun("dupsert_files_pinecone", MaxPasses)

NextPasses == Reconcile \/ Confirm \/ DeleteFile \/ UploadAttempt \/ NextPass

SpecPasses == InitPasses /\ [][NextPasses]_vars

-----------------------------------------------------------------------------
(* Vocabulary of the properties *)

\* the reconciliation has run and nothing has been applied yet
Decided == pc \in {"no_changes", "confirm"}

ManifestNames == {files[k].file_name : k \in 1..Len(files)}

\* the remote inventory of the source: one entry per name, of that source
Inventory == Range(existing_valid_files(assistant_files, source))

InUpsert(f) == \E k \in 1..Len(files_to_upsert) : files_to_upsert[k] = f

InDelete(e) == \E k \in 1..Len(files_to_delete) : files_to_delete[k] = e

HasEntry(f) == has_existing(assistant_files, f.file_name)

EntryOf(f) == existing_file_details(assistant_files, f.file_name)

\* the remote entry of f carries a last_updated value
Compared(f) ==
    /\ HasEntry(f)
    /\ EntryOf(f).metadata.is_dict
    /\ EntryOf(f).metadata.last_updated # << >>

\* whole seconds by which f is ahead of its remote entry
Gap(f) ==
    int(split_dot_0(f.last_updated)) - int(split_dot_0(EntryOf(f).metadata.last_updated))

Newer(f) == IF precise THEN Gap(f) > 0 ELSE Gap(f) > 0 /\ Gap(f) < 24 * 3600

SameHash(f) ==
    /\ EntryOf(f).metadata.content_hash # ""
    /\ EntryOf(f).metadata.content_hash = f.content_hash

-----------------------------------------------------------------------------
(* Properties of the reconciliation, checked under SpecDecide *)

\* C1: the delete set is exactly the remote entries whose metadata.source is
\* the given source and whose name is not a file name of the manifest; entries
\* of another source or with a manifest name are never deleted.
C1_DeleteSetIsAllStaleEntries ==
    Decided =>
        \A e \in Range(assistant_files) :
            InDelete(e) <=> /\ e.metadata.is_dict
                            /\ e.metadata.source = source
                            /\ e.name \notin ManifestNames

\* C2: every local record whose file name has no entry in the source-filtered
\* remote inventory is placed in the upload set.
C2_AbsentFromInventoryIsUploaded ==
    Decided =>
        \A f \in Range(files) :
            (\A e \in Inventory : e.name # f.file_name) => InUpsert(f)

\* the manifest and the remote inventory of the source have the same names,
\* and per name the same content hash and the same last_updated
IdenticalToInventory ==
    /\ ManifestNames = {e.name : e \in Inventory}
    /\ \A f \in Range(files) : \A e \in Inventory :
          e.name = f.file_name =>
              /\ e.metadata.content_hash = f.content_hash
              /\ e.metadata.last_updated = f.last_updated

C4_NewerRule ==
    Decided =>
        \A f \in Range(files) :
            (Compared(f) /\ ~SameHash(f)) =>
                /\ InUpsert(f) <=> Newer(f)
                /\ (~precise /\ Gap(f) = 23 * 3600) => InUpsert(f)
                /\ (~precise /\ Gap(f) = 24 * 3600) => ~InUpsert(f)
                /\ (~precise /\ Gap(f) = 25 * 3600) => ~InUpsert(f)
                /\ (precise /\ Gap(f) = 25 * 3600) => InUpsert(f)

C4_Witness ==
    /\ Decided
    /\ ~precise
    /\ \E f \in Range(files) :
          /\ Compared(f)
          /\ ~SameHash(f)
          /\ Gap(f) = 24 * 3600
          /\ f.last_updated = TS_90000_1
          /\ ~InUpsert(f)

\* C5: a record newer than its remote entry is uploaded unless the remote
\* metadata has a content_hash equal to the record's, and then it is skipped;
\* with no remote content_hash or a different one it is uploaded.
C5_NewerUploadedUnlessSameHash ==
    Decided =>
        \A f \in Range(files) :
            (Compared(f) /\ Newer(f)) =>
                /\ SameHash(f) => ~InUpsert(f)
                /\ EntryOf(f).metadata.content_hash = "" => InUpsert(f)
                /\ EntryOf(f).metadata.content_hash \notin {"", f.content_hash} => InUpsert(f)

C5_Witness ==
    /\ Decided
    /\ \E f \in Range(files) :
          /\ Compared(f)
          /\ Newer(f)
          /\ SameHash(f)
          /\ ~InUpsert(f)

\* C6: a record whose remote entry has a last_updated value and that is not
\* newer than it is skipped whatever the two content hashes are: it is not
\* uploaded and its remote entry is not deleted.
C6_NotNewerSkipped ==
    Decided =>
        \A f \in Range(files) :
            (Compared(f) /\ ~Newer(f)) =>
                /\ ~InUpsert(f)
                /\ \A e \in Range(assistant_files) : e.name = f.file_name => ~InDelete(e)

C6_Witness ==
    /\ Decided
    /\ ~precise
    /\ \E f \in Range(files) :
          /\ Compared(f)
          /\ Gap(f) = 25 * 3600
          /\ ~SameHash(f)
          /\ ~InUpsert(f)

\* C7: a record whose remote entry exists but has no metadata or no
\* last_updated value is uploaded, whatever the timestamps, the content hash
\* and the precise flag are.
C7_NoLastUpdatedUploaded ==
    Decided =>
        \A f \in Range(files) :
            (HasEntry(f) /\ ~Compared(f)) => InUpsert(f)

C7_Witness ==
    /\ Decided
    /\ \E f \in Range(files) :
          /\ HasEntry(f)
          /\ EntryOf(f).metadata.is_dict
          /\ EntryOf(f).metadata.last_updated = << >>
          /\ EntryOf(f).metadata.content_hash = f.content_hash
          /\ InUpsert(f)

-----------------------------------------------------------------------------
(* Properties of the upload retry loop, checked under Spec *)

\* C8 as stated: with max_retries = 5 and retry_delay = 1 the delay waited
\* before attempt index 3 is 8 time-units.
C8_DelayBeforeAttempt3Is8 ==
    (pc = "upload" /\ attempt = 3) => sleep_time = 8

\* C8 as amended: the delay waited before attempt index k > 0 is
\* retry_delay * 2^(k-1), computed from the index of the attempt that failed:
\* 4 time-units before attempt index 3, and 8 before attempt index 4.
C8_DelayBeforeAttempt ==
    (pc = "upload" /\ attempt > 0) =>
        /\ sleep_time = 2 ^ (attempt - 1)
        /\ attempt = 3 => sleep_time = 4
        /\ attempt = 4 => sleep_time = 8

C8_Witness ==
    /\ pc = "upload"
    /\ attempt = 4
    /\ sleep_time = 8

\* C9: each file of the upload set is attempted at most max_retries = 5
\* times, so the retry loop terminates; when all 5 attempts of a file fail the
\* error leaves dupsert_files_pinecone: the file is not done, nothing runs
\* after the raise and no later file of the batch is uploaded.
C9_BoundedAttemptsThenRaise ==
    /\ [](/\ attempt < 5
          /\ upload_calls <= 5
          /\ pc = "upload" => upload_calls = attempt
          /\ pc = "raised" => /\ upload_calls = 5
                              /\ i < Len(files_to_upsert)
                              /\ verified = 0..(i - 1))
    /\ [][pc # "raised"]_vars

C9_Witness ==
    /\ pc = "raised"
    /\ upload_calls = 5
    /\ i = 0
    /\ Len(files_to_upsert) = 2

\* the upload_file call of this step stored a file for files_to_upsert[i]
Stored == Len(assistant_files') = Len(assistant_files) + 1

StoredMetadata == assistant_files'[Len(assistant_files')].metadata

\* C10: an upload whose write succeeded but whose verification read shows no
\* metadata or no last_updated is a failed attempt: the file is not done and
\* is tried again (or the batch fails once the attempts are exhausted); a
\* file is done only after a verification read that shows last_updated.
C10_UnverifiedUploadIsFailedAttempt ==
    [][pc = "upload" =>
          /\ (Stored /\ (~StoredMetadata.is_dict \/ StoredMetadata.last_updated = << >>)) =>
                /\ verified' = verified
                /\ i' = i
                /\ IF attempt < 4
                   THEN pc' = "upload" /\ attempt' = attempt + 1
                   ELSE pc' = "raised"
          /\ verified' # verified =>
                /\ verified' = verified \cup {i}
                /\ Stored
                /\ StoredMetadata.is_dict
                /\ StoredMetadata.last_updated # << >>
                /\ assistant_files'[Len(assistant_files')].name = files_to_upsert[i + 1].file_name
    ]_vars

\* a file was written, its verification read showed no metadata, and the same
\* file is about to be uploaded again
C10_Witness ==
    /\ pc = "upload"
    /\ attempt > 0
    /\ i \notin verified
    /\ Len(assistant_files) > 0
    /\ assistant_files[Len(assistant_files)].id = next_id - 1
    /\ assistant_files[Len(assistant_files)].name = files_to_upsert[i + 1].file_name
    /\ ~assistant_files[Len(assistant_files)].metadata.is_dict

-----------------------------------------------------------------------------
(* Properties of the apply phase, checked under Spec *)

\* this step calls assistant.delete_file or assistant.upload_file
RemoteCall ==
    \/ delete_calls' # delete_calls
    \/ upload_calls' # upload_calls
    \/ next_id' # next_id
    \/ assistant_files' # assistant_files

\* C11: a delete or an upload is issued only if the delete and upload sets are
\* not both empty and, when auto_confirm is false, the confirmation was given;
\* otherwise the function returns and the remote store stays as it was.
C11_WritesOnlyWhenNeededAndConfirmed ==
    /\ [][RemoteCall =>
             /\ (files_to_delete # << >> \/ files_to_upsert # << >>)
             /\ (auto_confirm \/ confirmation \in {"y", "Y"})
             /\ pc \in {"delete", "upload"}]_vars
    /\ [][pc \notin {"no_changes", "cancelled"}]_vars
    /\ [](pc \in {"delete", "upload", "done", "raised"} =>
             /\ (files_to_delete # << >> \/ files_to_upsert # << >>)
             /\ (auto_confirm \/ confirmation \in {"y", "Y"}))
    /\ [](pc \in {"start", "confirm", "no_changes", "cancelled"} =>
             /\ delete_calls = << >>
             /\ upload_calls = 0
             /\ next_id = Len(assistant_files) + 1
             /\ \A k \in 1..Len(assistant_files) : assistant_files[k].id = k)

C11_Witness ==
    /\ pc = "cancelled"
    /\ ~auto_confirm
    /\ confirmation = ""
    /\ files_to_delete # << >>
    /\ files_to_upsert # << >>
    /\ Len(assistant_files) = 2

\* the delete_file call for id was made and the file is still listed
DeleteFailed(id) ==
    /\ \E k \in 1..Len(delete_calls) : delete_calls[k] = id
    /\ \E k \in 1..Len(assistant_files) : assistant_files[k].id = id

\* C12: every entry of the delete set is attempted exactly once, in order; a
\* failed delete is not retried and stops neither the remaining deletes nor
\* the uploads that follow.
C12_EachDeleteAttemptedOnce ==
    /\ Len(delete_calls) <= Len(files_to_delete)
    /\ \A k \in 1..Len(delete_calls) : delete_calls[k] = files_to_delete[k].id
    /\ \A j, k \in 1..Len(delete_calls) : delete_calls[j] = delete_calls[k] => j = k
    /\ pc = "delete" => Len(delete_calls) < Len(files_to_delete)
    /\ pc \in {"upload", "done", "raised"} => Len(delete_calls) = Len(files_to_delete)
    /\ (pc = "done" /\ \E id \in Range(delete_calls) : DeleteFailed(id)) =>
           verified = 0..(Len(files_to_upsert) - 1)

C12_Witness ==
    /\ pc = "done"
    /\ Len(delete_calls) = 2
    /\ DeleteFailed(delete_calls[1])
    /\ ~DeleteFailed(delete_calls[2])
    /\ verified = {0}


-----------------------------------------------------------------------------
(* Vocabulary of the properties of the Slack bot *)

\* process_slack_event has returned or raised
Finals == {"ignored", "bot_ignored", "no_access", "duplicate", "not_relevant", "done", "raised"}

\* parse_slack_event has returned to invocation p
Parsed(p) ==
    /\ line[p] \notin {"absent", "start", "ignored"}
    /\ slack_data[p] # NoSlackData

Made(p, name) == \E k \in 1..Len(calls[p]) : calls[p][k].call = name

Returned(p, name) == \E k \in 1..Len(calls[p]) : calls[p][k].call = name /\ calls[p][k].ok

\* invocation p has attempted a Slack message
Told(p) == \E k \in 1..Len(calls[p]) : calls[p][k].call \in SendCalls

\* invocation p has called process_chat_request (line 291, reached from line 290 only)
RanChat(p) == line[p] \in {"chat", "chat_loading", "chat_feed", "chat_answer", "chat_error"}
              \/ (line[p] \in {"done", "raised"} /\ Made(p, "put_item"))

SameKey(p, q) == same_key(slack_data[p], slack_data[q])

InTable(p) == \E item \in event_table : same_key(item, slack_data[p])

\* the step is the duplicate check of invocation p
Checks(p) == line[p] = "dedup" /\ line'[p] # "dedup"

\* the step is mark_request_started of invocation p
Marks(p) == line[p] = "mark" /\ line'[p] = "chat"

LastCall(p) == calls'[p][Len(calls'[p])]

-----------------------------------------------------------------------------
(* Properties of the dedup gate, checked under SpecGate and SpecEvent *)

\* C13: right after mark_request_started succeeded for a key, is_duplicate_request
\* is true for that key, and the check of an invocation finds a duplicate when its
\* key is in the table; a check never finds a duplicate for a key that no
\* invocation marked, whatever other keys were marked.
C13_CheckTrueAfterMarkFalseIfNeverMarked ==
    [][\A p \in Invocations :
          /\ (Marks(p) /\ LastCall(p).ok) =>
                \A q \in Invocations :
                    (Parsed(q) /\ SameKey(p, q)) =>
                        is_duplicate_request(event_table', slack_data[q], TRUE)
          /\ (Checks(p) /\ LastCall(p).ok /\ InTable(p)) => line'[p] = "duplicate"
          /\ (Checks(p) /\ line'[p] = "duplicate") =>
                \E q \in Invocations : q # p /\ SameKey(p, q) /\ Returned(q, "put_item")
      ]_vars

C13_Witness ==
    /\ line[1] = "duplicate"
    /\ Returned(2, "put_item") /\ SameKey(1, 2)

\* C14: mark_request_started for a key that is in the table leaves the table as it
\* is (the stored expiry stays), and the invocation does not go on to the chat.
C14_MarkIsInsertIfAbsent ==
    [][\A p \in Invocations :
          (Marks(p) /\ InTable(p)) =>
              /\ event_table' = event_table
              /\ ~RanChat(p)'
      ]_vars

\* C15: a slash-command, mention or message event (direct messages included)
\* whose key is in the table when its check reads it returns there, having sent
\* no Slack message, emitted no analytics event, asked the backend nothing and
\* written nothing to the table.
C15_DuplicateShortCircuitsSilently ==
    \A p \in Invocations :
        event_type[p] \in {"honk", "app_mention", "message"} =>
            /\ line[p] = "duplicate" =>
                  /\ ~Told(p)
                  /\ ~Made(p, "send_tinybird")
                  /\ ~Made(p, "get_response")
                  /\ ~Made(p, "put_item")
            /\ (Returned(p, "get_item") /\ ~Made(p, "put_item") /\ InTable(p)) =>
                  line[p] = "duplicate"

C15_Witness ==
    /\ line[1] = "duplicate"
    /\ event_type[1] = "honk"
    /\ slack_data[1].is_dm

\* C16: when all the invocations for one key have finished, one of them has run
\* the chat process.
C16_GateNeverDropsAll ==
    \A p \in Invocations :
        (Parsed(p) /\ \A q \in Invocations : (Parsed(q) /\ SameKey(p, q)) => line[q] \in Finals)
            => \E q \in Invocations : Parsed(q) /\ SameKey(p, q) /\ RanChat(q)

C16_Witness ==
    /\ line[1] = "done" /\ line[2] = "done"
    /\ SameKey(1, 2)
    /\ Returned(1, "get_item") /\ Returned(2, "get_item")
    /\ RanChat(1) /\ RanChat(2)

-----------------------------------------------------------------------------
(* Properties of parse_slack_event, checked under SpecEvent and SpecContext *)

\* C17: for an app_mention or message payload whose subtype is message_changed,
\* the parsed text is the nested message's text, and when the nested message has
\* a ts the parsed event_ts is that ts, as is thread_ts when the payload has no
\* thread_ts.
C17_EditedMessageParsedFromNested ==
    \A p \in Invocations :
        (Parsed(p) /\ event_type[p] \in MessageEvents
                   /\ event_data[p].subtype = "message_changed") =>
            /\ slack_data[p].text = event_data[p].message.text
            /\ event_data[p].message.ts # "" =>
                  /\ slack_data[p].event_ts = event_data[p].message.ts
                  /\ event_data[p].thread_ts = "" =>
                        slack_data[p].thread_ts = event_data[p].message.ts

C17_Witness ==
    /\ Parsed(1) /\ event_type[1] = "message"
    /\ event_data[1].subtype = "message_changed"
    /\ event_data[1].ts = "t1" /\ event_data[1].message.ts = "t2"
    /\ event_data[1].text = HI /\ event_data[1].thread_ts = ""
    /\ slack_data[1].event_ts = "t2" /\ slack_data[1].thread_ts = "t2"
    /\ slack_data[1].text = HI_BOT

\* C18 as stated: for every kind of event whose payload has no thread id, the
\* parsed thread_ts is the parsed event_ts.
C18_ThreadDefaultsToEventTs ==
    \A p \in Invocations :
        (Parsed(p) /\ event_data[p].thread_ts = "") =>
            slack_data[p].thread_ts = slack_data[p].event_ts

\* C18: for a mention, message or reaction event whose payload has no thread id,
\* the parsed thread_ts is the parsed event_ts; for a slash command without a
\* thread id it is '' while event_ts is the trigger id.
C18_ThreadDefaultsExceptSlashCommand ==
    \A p \in Invocations :
        (Parsed(p) /\ event_data[p].thread_ts = "") =>
            IF event_type[p] = "honk"
            THEN /\ slack_data[p].thread_ts = ""
                 /\ slack_data[p].event_ts = event_data[p].trigger_id
            ELSE slack_data[p].thread_ts = slack_data[p].event_ts

C18_Witness ==
    /\ Parsed(1) /\ event_type[1] = "honk"
    /\ event_data[1].thread_ts = ""
    /\ slack_data[1].thread_ts = "" /\ slack_data[1].event_ts = "trigger"

\* the thread fetched for the reaction of invocation p lacks the item reacted to
TargetMissing(p) ==
    /\ event_type[p] \in ReactionEvents
    /\ Parsed(p)
    /\ target_indices(event_data[p], (get_conversation_context(thread)).context_metadata) = {}

\* C19: a reaction event whose target message is not in the fetched thread writes
\* no dedup mark, does not run the chat process and sends no Slack message.
C19_MissingTargetShortCircuits ==
    \A p \in Invocations :
        TargetMissing(p) =>
            /\ ~Made(p, "put_item")
            /\ ~RanChat(p)
            /\ ~Told(p)

\* sum of the counts of the reactions whose name is in names
RECURSIVE CountIn(_, _)
CountIn(reactions, names) ==
    IF reactions = << >> THEN 0
    ELSE (IF Head(reactions).name \in names THEN Head(reactions).count ELSE 0)
         + CountIn(Tail(reactions), names)

\* C20: the score stored for every thread message is the sum of the counts of its
\* reactions in POSITIVE_REACTIONS minus that of its reactions in
\* NEGATIVE_REACTIONS; reactions in neither set do not count, and +1 twice with
\* -1 once scores 1.
C20_ScoreIsPositiveMinusNegative ==
    \A p \in Invocations :
        (Parsed(p) /\ slack_data[p].context_metadata # << >>) =>
            /\ Len(slack_data[p].context_metadata) = Len(thread)
            /\ \A k \in 1..Len(thread) :
                  LET score == slack_data[p].context_metadata[k].score
                      reactions == thread[k].reactions
                  IN  /\ score = CountIn(reactions, POSITIVE_REACTIONS)
                                 - CountIn(reactions, NEGATIVE_REACTIONS)
                      /\ (\A j \in 1..Len(reactions) :
                             reactions[j].name \notin POSITIVE_REACTIONS \cup NEGATIVE_REACTIONS)
                            => score = 0
                      /\ reactions = <<[name |-> "+1", count |-> 2], [name |-> "-1", count |-> 1]>>
                            => score = 1

C20_Witness ==
    /\ Parsed(1)
    /\ Len(thread) = 2
    /\ thread[1].reactions = <<[name |-> "+1", count |-> 2], [name |-> "-1", count |-> 1]>>
    /\ thread[2].reactions = <<[name |-> "eyes", count |-> 1], [name |-> "-1", count |-> 1]>>
    /\ slack_data[1].context_metadata[1].score = 1
    /\ slack_data[1].context_metadata[2].score = 0 - 1


-----------------------------------------------------------------------------
(* Failures of the chat request and of the admission, checked under SpecEvent *)

\* every Slack message invocation p attempted went through
SendsSucceeded(p) ==
    \A k \in 1..Len(calls[p]) : calls[p][k].call \in SendCalls => calls[p][k].ok

\* invocation p made the call name and it raised
Raised(p, name) == \E k \in 1..Len(calls[p]) : calls[p][k].call = name /\ ~calls[p][k].ok

\* the texts of the Slack messages of invocation p, in sending order
RECURSIVE TextsSent(_)
TextsSent(made) ==
    IF made = << >> THEN << >>
    ELSE (IF Head(made).call \in SendCalls THEN <<Head(made).text>> ELSE << >>)
         \o TextsSent(Tail(made))

\* C25: when the backend query raises and the Slack sends succeed, the request
\* ends normally: its last Slack message is the apology text, sent like any
\* answer (as an update of the loading message when that was posted), no
\* citation formatting is tried and no exception leaves the invocation.
C25_BackendFailureAnsweredWithApology ==
    \A p \in Invocations :
        (Raised(p, "get_response") /\ SendsSucceeded(p)) =>
            LET texts == TextsSent(calls[p])
            IN  /\ line[p] = "done"
                /\ ~Made(p, "format_response_with_citations")
                /\ texts # << >> /\ texts[Len(texts)] = "backend_error_text"
                /\ slack_data[p].response = "backend_error_text"
                /\ slack_data[p].update_ts # ""
                      => \E k \in 1..Len(calls[p]) :
                            /\ calls[p][k].call = "chat_update"
                            /\ calls[p][k].text = "backend_error_text"

C25_Witness ==
    /\ line[1] = "done"
    /\ event_type[1] = "app_mention"
    /\ TextsSent(calls[1]) = <<"loading", "backend_error_text">>
    /\ Raised(1, "get_response")
    /\ SendsSucceeded(1)

\* C26: when the backend query returns and the citation formatting raises, the
\* raw answer is what the request sends: with the Slack sends succeeding the
\* request ends normally and no apology is among its messages.
C26_FormatFailureSendsRawAnswer ==
    \A p \in Invocations :
        (Returned(p, "get_response") /\ Raised(p, "format_response_with_citations")) =>
            LET texts == TextsSent(calls[p])
            IN  /\ texts # << >> /\ texts[Len(texts)] \in {"raw_answer", "apology"}
                /\ SendsSucceeded(p) =>
                      /\ line[p] = "done"
                      /\ texts[Len(texts)] = "raw_answer"
                      /\ slack_data[p].response = "raw_answer"
                      /\ \A k \in 1..Len(texts) :
                            texts[k] \notin {"apology", "backend_error_text"}

C26_Witness ==
    /\ line[1] = "done"
    /\ TextsSent(calls[1]) = <<"loading", "raw_answer">>
    /\ Returned(1, "get_response")
    /\ Raised(1, "format_response_with_citations")

\* the access verification of invocation p raised, with the error text
AccessFailed(p, error_msg) ==
    \E k \in 1..Len(calls[p]) :
        /\ calls[p][k].call \in {"conversations_info", "conversations_open"}
        /\ ~calls[p][k].ok
        /\ calls[p][k].text = error_msg

\* C27: when the access verification fails the processing stops there: no
\* duplicate check, no mark, no chat request and no backend query. A Slack
\* message is attempted exactly when the error is a timeout, and it is the
\* timeout notice; for any other access error nothing is sent.
C27_AccessFailureStops ==
    \A p \in Invocations :
        \A error_msg \in {"operation_timeout", "error"} :
            AccessFailed(p, error_msg) =>
                /\ line[p] = "no_access"
                /\ ~Made(p, "get_item") /\ ~Made(p, "put_item")
                /\ ~Made(p, "get_response")
                /\ ~RanChat(p)
                /\ Told(p) <=> error_msg = "operation_timeout"
                /\ \A k \in 1..Len(TextsSent(calls[p])) :
                      TextsSent(calls[p])[k] = "timed_out"

C27_Witness ==
    /\ AccessFailed(1, "error")
    /\ line[1] = "no_access"
    /\ ~Told(1)
    /\ event_type[1] = "app_mention"

\* the channel of invocation p, verified, is not in the allow-list
NotAllowed(p) ==
    /\ Parsed(p)
    /\ line[p] \notin {"admit", "bot_ignored", "no_access"}
    /\ ~is_allowed(slack_data[p].channel_id, secrets.SLACK_CHANNEL_ALLOW_LIST)

\* C28: for an event whose channel is not in the allow-list (the list not
\* being "*") nothing was processed: no analytics emission, no fetch of the
\* thread history, no duplicate check, no mark, no backend query, no chat
\* request.
C28_AllowListBeforeProcessing ==
    \A p \in Invocations :
        NotAllowed(p) =>
            /\ ~Made(p, "send_tinybird")
            /\ ~Made(p, "conversations_replies")
            /\ ~Made(p, "get_item") /\ ~Made(p, "put_item")
            /\ ~Made(p, "get_response")
            /\ ~RanChat(p)

-----------------------------------------------------------------------------
(* Citation formatting: vocabulary of the properties *)

Original == normalized_response.message

\* the positions some reference is cited at, and the URLs cited there
CitedPositions ==
    {c.position : c \in {d \in Range(normalized_response.citations) : d.references # << >>}}

CitedAt(position) ==
    {ref.url : ref \in UNION {Range(c.references) :
                   c \in {d \in Range(normalized_response.citations) : d.position = position}}}

CitedUrls == UNION {CitedAt(position) : position \in CitedPositions}

\* the citations by ascending position, those of one position in listing order
ByAscendingPosition(citations) ==
    LET order == sorted(DOMAIN citations,
                        [k \in DOMAIN citations |->
                            citations[k].position * (Len(citations) + 1) + k])
    IN  [k \in 1..Len(order) |-> citations[order[k]]]

\* message with markers[p] put before its character of offset p, for every p
RECURSIVE Interleaved(_, _, _)
Interleaved(message, markers, offset) ==
    (IF offset \in DOMAIN markers THEN markers[offset] ELSE << >>)
    \o (IF offset < Len(message)
        THEN <<message[offset + 1]>> \o Interleaved(message, markers, offset + 1)
        ELSE << >>)

\* text without its bracketed parts
RECURSIVE WithoutMarkers(_)
WithoutMarkers(text) ==
    IF text = << >> THEN << >>
    ELSE IF Head(text) = "["
    THEN LET close == CHOOSE k \in 1..Len(text) :
                          text[k] = "]" /\ \A j \in 1..(k - 1) : text[j] # "]"
         IN  WithoutMarkers(SubSeq(text, close + 1, Len(text)))
    ELSE <<Head(text)>> \o WithoutMarkers(Tail(text))

RECURSIVE TotalLen(_, _)
TotalLen(markers, at) ==
    IF at = {} THEN 0
    ELSE LET q == CHOOSE q \in at : TRUE
         IN  Len(markers[q]) + TotalLen(markers, at \ {q})

\* the markers the function builds, by position
Markers ==
    [position \in CitedPositions |->
        superscript(CitedAt(position), reference_numbers(normalized_response.citations))]

\* C22: reference numbers are 1, 2, ... in the order in which the URLs first
\* appear when the citations are read by ascending position (and the
\* references of a citation in their order), whatever the order in which the
\* raw response lists the citations.
C22_NumbersFollowCitationPosition ==
    formatted_response.returned =>
        LET expected == first_appearances(
                            cited_urls(ByAscendingPosition(normalized_response.citations)))
        IN  /\ Len(formatted_response.references) = Len(expected)
            /\ \A k \in 1..Len(expected) :
                  formatted_response.references[k] = reference_line(expected[k], k)

\* C23: for every cited position p within the message its marker stands at
\* offset p of the original message: the annotated text is the original with
\* each marker put before the character of offset p, the character before the
\* marker is the original's character p-1 and the one after it the original's
\* character p, and the text without its markers is the original.
C23_MarkersAtOriginalOffsets ==
    formatted_response.returned =>
        LET text == formatted_response.message
        IN  /\ text = Interleaved(Original, Markers, 0)
            /\ WithoutMarkers(text) = Original
            /\ \A p \in CitedPositions :
                  LET start == p + TotalLen(Markers, {q \in CitedPositions : q < p})
                      end == start + Len(Markers[p])
                  IN  /\ SubSeq(text, start + 1, end) = Markers[p]
                      /\ p > 0 => text[start] = Original[p]
                      /\ p < Len(Original) => text[end + 1] = Original[p + 1]

C23_Witness ==
    /\ formatted_response.returned
    /\ Len(normalized_response.citations) = 2
    /\ normalized_response.citations[1].position = 0
    /\ normalized_response.citations[2].position = 2
    /\ formatted_response.message
         = <<"[", "1", "]", "w", "x", "[", "1", ",", "<", "h", "t", "t", "p", ":", "a",
             "|", "2", ">", "]", "y", "z">>

\* the number and the URL of a line of the references section
LineNumber(ref_line) == int(split_dot_0(ref_line))

LineUrl(ref_line) ==
    LET ref == SubSeq(ref_line, Len(split_dot_0(ref_line)) + 3, Len(ref_line))
    IN  IF ref # << >> /\ ref[1] = "<"
        THEN SubSeq(ref, 2, (CHOOSE k \in 1..Len(ref) :
                                ref[k] = "|" /\ \A j \in 1..(k - 1) : ref[j] # "|") - 1)
        ELSE ref

LinesOf(url) ==
    {k \in 1..Len(formatted_response.references) :
        LineUrl(formatted_response.references[k]) = url}

NumberOf(url) ==
    LineNumber(formatted_response.references[CHOOSE k \in LinesOf(url) : TRUE])

\* the marker citing the URLs of a position under the numbers of their lines
ListedMarker(position) ==
    LET urls == CitedAt(position)
        ordered == sorted(urls, [url \in urls |-> NumberOf(url)])
        entry(url) == IF SubSeq(url, 1, 4) = <<"h", "t", "t", "p">>
                      THEN <<"<">> \o url \o <<"|">> \o str(NumberOf(url)) \o <<">">>
                      ELSE str(NumberOf(url))
    IN  <<"[">> \o join([k \in 1..Len(ordered) |-> entry(ordered[k])]) \o <<"]">>

\* C24: every distinct cited URL has exactly one line of the references
\* section, no two lines carry the same number, and every inline marker
\* cites each of its URLs under the number of that URL's line; so two
\* citations of one URL at different positions get the same marker.
C24_OneNumberPerUrl ==
    formatted_response.returned =>
        /\ \A url \in CitedUrls : Cardinality(LinesOf(url)) = 1
        /\ \A k \in 1..Len(formatted_response.references) :
              LineUrl(formatted_response.references[k]) \in CitedUrls
        /\ \A j, k \in 1..Len(formatted_response.references) :
              LineNumber(formatted_response.references[j])
                  = LineNumber(formatted_response.references[k]) => j = k
        /\ formatted_response.message
             = Interleaved(Original, [p \in CitedPositions |-> ListedMarker(p)], 0)

C24_Witness ==
    /\ formatted_response.returned
    /\ normalized_response.citations
         = <<[position |-> 0, references |-> <<[name |-> <<"a", ".", "m", "d">>, url |-> URL_A]>>],
             [position |-> 4, references |-> <<[name |-> <<"a", ".", "m", "d">>, url |-> URL_A]>>]>>
    /\ formatted_response.references
         = << <<"1", ".", " ", "<", "h", "t", "t", "p", ":", "a", "|",
                "h", "t", "t", "p", ":", "a", ">">> >>
    /\ formatted_response.message
         = <<"[", "<", "h", "t", "t", "p", ":", "a", "|", "1", ">", "]",
             "w", "x", "y", "z",
             "[", "<", "h", "t", "t", "p", ":", "a", "|", "1", ">", "]">>

-----------------------------------------------------------------------------
(* Normalization, checked under SpecNormalize *)

\* C29: normalizing a content that was normalized leaves it as it is: from the
\* first conversion on, a conversion changes neither the file's content nor
\* its content hash.
C29_NormalizationIdempotent ==
    [][conversions >= 1 => /\ file_content' = file_content
                           /\ content_hash' = content_hash]_vars

\* the table of a header, a separator and a row, followed by two empty lines,
\* after its second conversion
C29_Witness ==
    /\ conversions = 2
    /\ file_content = <<"a", ":", " ", "x", " ", "|", " ", "b", ":", " ", "y", "\n", "\n">>
    /\ content_hash = [digest_of |-> file_content]

-----------------------------------------------------------------------------
(* Remote failures, checked under SpecRemote *)

\* C30: a remote call that fails is made again, a bounded number of times and
\* each time after a sleep twice as long as the one before; when the attempts
\* are used up the failure ends the function, and no item whose call failed
\* is passed over. This for the RAG upload, the object-store upload, the
\* fetch of the bulk feed, the fetch of the wiki and the backend query.
C30_FailuresRetriedThenFatal ==
    /\ remote.passed_over = {}
    /\ remote.attempt < llms_max_retries
    /\ remote.state = "raised" =>
          /\ remote.sleeps # << >>
          /\ Len(remote.sleeps) = remote.requests - 1
          /\ \A k \in 1..(Len(remote.sleeps) - 1) :
                remote.sleeps[k + 1] = 2 * remote.sleeps[k]
    /\ attempt < max_retries
    /\ pc = "raised" => upload_calls = max_retries /\ sleep_time = 2 ^ (max_retries - 2)

-----------------------------------------------------------------------------
(* The object store against the RAG store *)

\* the object of the bucket that holds a file of the listing
ObjectOf(e) == [name |-> e.name, metadata |-> e.metadata]

\* both functions have taken their decisions
BothDecided == Decided /\ remote.state \in {"running", "returned"}

\* C31: on the same manifest and the same inventory with the same metadata,
\* dupsert_files_s3 takes for every local record and for every remote entry of
\* the source the decision of dupsert_files_pinecone: the same records are
\* uploaded, the same are skipped, and the same entries are deleted.
C31_ObjectStoreDecidesAsRagStore ==
    BothDecided =>
        /\ \A f \in Range(files) : InUpsert(f) <=> f \in Range(remote.to_upload)
        /\ \A e \in Range(assistant_files) :
              InDelete(e) <=> ObjectOf(e) \in Range(remote.to_delete)

\* the part of C31 that the code keeps: the same entries are deleted
SameDeleteDecisions ==
    BothDecided =>
        \A e \in Range(assistant_files) :
            InDelete(e) <=> ObjectOf(e) \in Range(remote.to_delete)

-----------------------------------------------------------------------------
(* The deduplication gate and the chat process *)

\* C32: every invocation that runs process_chat_request has executed the
\* duplicate check of its key before, and the check was negative; this for
\* every event that can run the chat process: direct message, slash command,
\* mention, message and reaction_added with honk.
C32_ChatOnlyAfterNegativeCheck ==
    \A p \in Invocations : RanChat(p) => Made(p, "get_item")

\* the part of C32 that the code keeps: the events line 265 names are checked
CheckedKindsRunChatAfterCheck ==
    \A p \in Invocations :
        RanChat(p) /\ needs_dedup_check(slack_data[p], event_type[p]) => Made(p, "get_item")

\* invocation p has run the chat process: it is in it, or it made the put_item
\* that only line 290 makes
RunsChat(p) == RanChat(p) \/ Made(p, "put_item")

\* the k-th call of p is parse_slack_event's fetch of the thread (line 229)
IsParseFetch(p, k) ==
    event_type[p] \in ReactionEvents /\ k = 1 /\ calls[p][k].call = "conversations_replies"

\* the k-th call of p is a Slack message, an analytics event, a fetch of the
\* thread by the chat process or a backend query
IsSideEffect(p, k) ==
    /\ calls[p][k].call \in SendCalls \cup {"send_tinybird", "get_response", "conversations_replies"}
    /\ ~IsParseFetch(p, k)

MarkedBefore(p, k) == \E j \in 1..(k - 1) : calls[p][j].call = "put_item"

\* C33 as stated: an event that runs the chat process writes (or attempts) the
\* mark of its key before its first Slack message, analytics event, thread fetch
\* of the chat process or backend query; an event that passes the check and
\* does not run the chat process writes no mark.
C33_MarkBeforeSideEffects ==
    \A p \in Invocations :
        /\ RanChat(p) => Made(p, "put_item")
        /\ RunsChat(p) =>
              \A k \in 1..Len(calls[p]) : IsSideEffect(p, k) => MarkedBefore(p, k)
        /\ line[p] = "not_relevant" => ~Made(p, "put_item")

\* the k-th call of p is the analytics event of line 238, sent for a reaction
\* to a message of the bot before the channel is verified
IsReactionAnalytics(p, k) ==
    /\ event_type[p] \in ReactionEvents
    /\ slack_data[p].is_bot
    /\ k = 2
    /\ calls[p][k].call = "send_tinybird"

\* C33 amended: the mark is written (or attempted) before every call of the
\* chat process (Slack messages, analytics events, thread fetch, backend
\* query); the one side effect that precedes it is the analytics event sent
\* for a reaction to a message of the bot; an event that does not run the chat
\* process writes no mark.
C33_ChatProcessCallsFollowMark ==
    \A p \in Invocations :
        /\ RanChat(p) => Made(p, "put_item")
        /\ RunsChat(p) =>
              \A k \in 1..Len(calls[p]) :
                  IsSideEffect(p, k) /\ ~IsReactionAnalytics(p, k) => MarkedBefore(p, k)
        /\ line[p] = "not_relevant" => ~Made(p, "put_item")

\* a mention in a thread was answered: the thread was fetched, the loading
\* message sent and the backend asked, all after the mark
C33_Witness ==
    \E p \in Invocations :
        /\ line[p] = "done"
        /\ event_type[p] = "app_mention"
        /\ Made(p, "put_item")
        /\ Made(p, "conversations_replies")
        /\ Made(p, "send_tinybird")
        /\ Made(p, "get_response")

\* the call p makes in this step raised
LastCallRaised(p, name) == LastCall(p).call = name /\ ~LastCall(p).ok

\* C34: the gate fails open. When get_item raises, the event is taken as not
\* a duplicate and goes on as an unseen event would; when put_item raises, the
\* error is swallowed, the table is left as it was and the chat process runs.
C34_GateFailsOpen ==
    [][\A p \in Invocations :
          /\ Checks(p) /\ Len(calls'[p]) > Len(calls[p]) /\ LastCallRaised(p, "get_item")
                => line'[p] = after_check(run_chat_process(slack_data[p], event_type[p],
                                              event_data[p], secrets.SLACK_BOT_USER_ID))
          /\ line[p] = "mark" /\ line'[p] # "mark"
                => /\ line'[p] = "chat"
                   /\ LastCallRaised(p, "put_item") => event_table' = event_table]_vars

\* the read and the write both raised for a key that is not in the table: the
\* chat process runs and the key is still not in the table
C34_Witness ==
    \E p \in Invocations :
        /\ line[p] = "chat"
        /\ ~InTable(p)
        /\ \E k \in 1..Len(calls[p]) : calls[p][k].call = "get_item" /\ ~calls[p][k].ok
        /\ \E k \in 1..Len(calls[p]) : calls[p][k].call = "put_item" /\ ~calls[p][k].ok

-----------------------------------------------------------------------------
(* The messages of one event *)

\* the places of calls[p] where send_slack called Slack
Sends(p) == {k \in 1..Len(calls[p]) : calls[p][k].call \in SendCalls}

\* the places where a new message was posted in the thread
Posted(p) == {k \in Sends(p) : calls[p][k].call = "chat_postMessage" /\ calls[p][k].ok}

\* the sends of p other than the timeout notice of verify_channel_access
ChatSends(p) == {k \in Sends(p) : calls[p][k].text # "timed_out"}

\* one new message, then updates of it, among the sends S of a non-ephemeral event
PostThenUpdate(p, S) ==
    /\ \A k \in S : calls[p][k].call # "chat_postEphemeral"
    /\ Cardinality(Posted(p) \cap S) <= 1
    /\ \A j, k \in S :
          j \in Posted(p) /\ j < k => calls[p][k].call = "chat_update"
    /\ \A k \in S :
          calls[p][k].call = "chat_update" => \E j \in Posted(p) : j < k

\* an ephemeral post among the sends S: a slash command outside a direct
\* message, to the user who typed it
EphemeralOnlyForCommand(p, S) ==
    \A k \in S :
        calls[p][k].call = "chat_postEphemeral"
            => /\ event_type[p] = "honk"
               /\ slack_data[p].ephemeral
               /\ ~slack_data[p].is_dm
               /\ slack_data[p].user_id = event_data[p].context.user_id
               /\ slack_data[p].user_id # ""

\* C35 as stated: in a non-ephemeral event the first send_slack posts one new
\* message and every later one updates it, so at most one message is posted and
\* the answer replaces the loading message; an ephemeral post is used only for
\* a slash command outside a direct message and goes to the requesting user.
C35_OnePostThenUpdates ==
    \A p \in Invocations :
        Parsed(p) =>
            /\ ~slack_data[p].ephemeral => PostThenUpdate(p, Sends(p))
            /\ EphemeralOnlyForCommand(p, Sends(p))

\* the part of C35 that the code keeps: the sends that follow the admission
\* (line 262 has cleared user_id for a non-ephemeral event)
ChatSendsPostThenUpdate ==
    \A p \in Invocations :
        Parsed(p) =>
            /\ ~slack_data[p].ephemeral => PostThenUpdate(p, ChatSends(p))
            /\ EphemeralOnlyForCommand(p, ChatSends(p))

-----------------------------------------------------------------------------
(* The conversation passed to the backend *)

\* invocation p is about to call, or has called, get_provider_response
AtBackend(p) == line[p] = "chat_answer" \/ Made(p, "get_response")

\* the messages of the thread that process_chat_request fetched for p
ThreadContext(p) ==
    IF fetches_context(slack_data[p]) THEN Take(thread, MAX_THREAD_MESSAGES) ELSE << >>

\* C36: the conversation passed to the backend is not empty, has the messages
\* of the thread context in the order of the thread (oldest first), and the
\* content of its last message is the text of the event; an event with empty
\* text never reaches the backend and is sent the no-prompt notice only.
C36_ConversationEndsWithPrompt ==
    \A p \in Invocations :
        /\ AtBackend(p) =>
              LET conversation == slack_data[p].context
                  kept == ThreadContext(p)
              IN  /\ conversation # << >>
                  /\ Len(conversation) \in {Len(kept), Len(kept) + 1}
                  /\ \A k \in 1..Len(kept) : conversation[k] = context_message(kept[k])
                  /\ conversation[Len(conversation)].content = slack_data[p].text
                  /\ slack_data[p].text # << >>
        /\ RunsChat(p) /\ slack_data[p].text = << >> =>
              /\ ~Made(p, "get_response")
              /\ line[p] \in {"chat", "done", "raised"}
              /\ \A k \in ChatSends(p) : calls[p][k].text = "no_prompt"

\* a mention in a thread of two messages reached the backend with the two
\* messages and the prompt
C36_Witness ==
    \E p \in Invocations :
        /\ Made(p, "get_response")
        /\ Len(thread) = 2
        /\ Len(slack_data[p].context) = 3
        /\ slack_data[p].context[3].content = slack_data[p].text

-----------------------------------------------------------------------------
(* The order of the writes of one pass *)

\* seq has its elements in the order they have in of
InOrderOf(seq, of) ==
    \E at \in [1..Len(seq) -> 1..Len(of)] :
        /\ \A k \in 1..Len(seq) : of[at[k]] = seq[k]
        /\ \A j, k \in 1..Len(seq) : j < k => at[j] < at[k]

\* an upload_file call has been made in this pass
UploadStarted == pc \in {"upload", "raised"} \/ i > 0 \/ upload_calls > 0

\* a step of the pass is a call of upload_file
UploadStep == pc = "upload" /\ (i' # i \/ attempt' # attempt \/ pc' # pc)

\* what every step of a pass keeps: a delete is issued only before the first
\* upload; an upload step stays on the file or goes to the next one, and what
\* it stores is the file at hand; the step that raises removes nothing; and
\* no step follows it
WritesInOrder ==
    /\ (delete_calls' # delete_calls) => (~UploadStarted /\ verified = {})
    /\ UploadStep =>
          /\ i' \in {i, i + 1}
          /\ (assistant_files' # assistant_files) =>
                /\ Len(assistant_files') = Len(assistant_files) + 1
                /\ assistant_files'[Len(assistant_files')].name
                      = files_to_upsert[i + 1].file_name
    /\ (pc' = "raised") =>
          /\ \A k \in 1..Len(assistant_files) : assistant_files'[k] = assistant_files[k]
          /\ verified' = verified
          /\ delete_calls' = delete_calls
    /\ pc # "raised"

\* C37: in one pass every delete is issued before the first upload and the
\* uploads are issued in the order of the manifest; when an upload has used up
\* its retries the function ends there, and the deletes and uploads applied
\* before stay applied: nothing is rolled back.
C37_DeletesThenUploadsNoRollback ==
    /\ [](UploadStarted => Len(delete_calls) = Len(files_to_delete))
    /\ [](Decided => InOrderOf(files_to_upsert, files))
    /\ [][WritesInOrder]_vars

\* a delete was applied and the first upload verified, then the second upload
\* used up its retries: the store has lost the deleted file and holds the
\* first upload
C37_Witness ==
    /\ pc = "raised"
    /\ Len(delete_calls) > 0
    /\ \A e \in Range(assistant_files) : e.id \notin Range(delete_calls)
    /\ verified = {0}
    /\ i = 1
    /\ \E e \in Range(assistant_files) :
          e.name = files_to_upsert[1].file_name /\ e.metadata = upload_metadata(files_to_upsert[1])

-----------------------------------------------------------------------------
(* A second pass *)

\* a pass after the first is under way, and in the passes before it every
\* delete was applied and every upload was verified
AfterCleanPass == remote.item >= 1 /\ remote.passed_over = {}

\* C38: after a pass in which every delete and every upload succeeded, a
\* second pass with the same manifest and the same precise flag computes an
\* empty delete set and an empty upload set and makes no remote write.
C38_SecondPassIsEmpty ==
    AfterCleanPass /\ pc # "start" =>
        /\ pc = "no_changes"
        /\ files_to_delete = << >>
        /\ files_to_upsert = << >>
        /\ delete_calls = << >>
        /\ upload_calls = 0
        /\ verified = {}

-----------------------------------------------------------------------------
(* The markers of the annotated text *)

\* the bracketed parts of text, in their order, without the brackets
RECURSIVE MarkersIn(_)
MarkersIn(text) ==
    IF text = << >> THEN << >>
    ELSE IF Head(text) = "["
    THEN LET close == CHOOSE k \in 1..Len(text) :
                          text[k] = "]" /\ \A j \in 1..(k - 1) : text[j] # "]"
         IN  <<SubSeq(text, 2, close - 1)>> \o MarkersIn(SubSeq(text, close + 1, Len(text)))
    ELSE MarkersIn(Tail(text))

\* the parts of a marker between its commas
RECURSIVE Entries(_)
Entries(marker) ==
    LET commas == {k \in 1..Len(marker) : marker[k] = ","}
    IN  IF commas = {} THEN <<marker>>
        ELSE LET comma == CHOOSE k \in commas : \A j \in commas : k <= j
             IN  <<SubSeq(marker, 1, comma - 1)>>
                 \o Entries(SubSeq(marker, comma + 1, Len(marker)))

\* the number an entry shows: n, or the n of <url|n>
EntryNumber(entry) ==
    IF entry # << >> /\ entry[1] = "<"
    THEN int(SubSeq(entry, (CHOOSE k \in 1..Len(entry) : entry[k] = "|") + 1, Len(entry) - 1))
    ELSE int(entry)

MarkerNumbers(marker) ==
    [k \in 1..Len(Entries(marker)) |-> EntryNumber(Entries(marker)[k])]

\* the cited positions, ascending
AscendingPositions == sorted(CitedPositions, [position \in CitedPositions |-> position])

-----------------------------------------------------------------------------
(* The order of the RAG update *)

\* handle_rag_update has returned or raised
UpdateEnded ==
    remote.operation = "handle_rag_update" /\ remote.state \in {"returned", "raised"}

\* the step that raises ends the update: no call follows, the stores stay as
\* they are and the exception leaves handle_rag_update
FailFast ==
    InRagUpdate /\ StepRaised =>
        /\ remote'.operation = "handle_rag_update"
        /\ remote'.state = "raised"
        /\ remote'.done = remote.done
        /\ remote'.objects = remote.objects
        /\ assistant_files' = assistant_files

\* C40: handle_rag_update makes its calls one after the other in the order
\* wiki to RAG store, bulk feed to RAG store, bulk feed to object store; when a
\* call raises no later call is made and the exception reaches the caller;
\* and in every case the temporary directories are removed.
C40_SerialFailFastWithCleanup ==
    /\ [](remote.caller = "handle_rag_update" =>
            /\ Len(remote.done) <= Len(rag_update_steps)
            /\ \A k \in 1..Len(remote.done) : remote.done[k] = rag_update_steps[k])
    /\ [](InRagUpdate =>
            /\ remote.operation = rag_update_steps[Len(remote.done) + 1]
            /\ remote.operation \in {"dupsert_files_pinecone", "dupsert_files_s3"}
                  => source = rag_update_sources[Len(remote.done) + 1]
            /\ remote.directories = TemporaryDirectories)
    /\ [][FailFast]_vars
    /\ [](UpdateEnded =>
            /\ remote.directories = {}
            /\ remote.state = "returned" => remote.done = rag_update_steps
            /\ remote.status_code \in {0, IF remote.state = "returned" THEN 200 ELSE 500})

\* the wiki and the bulk feed were fetched, the RAG store lost its stale file
\* and the upload of the bulk feed used up its retries: the object store still
\* holds the stale file, the directories are gone and the scheduled event
\* answers 500
C40_Witness ==
    /\ UpdateEnded
    /\ remote.state = "raised"
    /\ remote.done = <<"export_all_outline_docs", "dupsert_files_pinecone", "parse_llms_full">>
    /\ source = SOURCE_TINYBIRD
    /\ pc = "raised"
    /\ Len(delete_calls) > 0
    /\ remote.objects # << >>
    /\ remote.directories = {}
    /\ remote.status_code = 500

====
